---------------------------- MODULE Spec2Model ----------------------------
(***************************************************************************)
(* A model of the rs-store package store: the archive codec                *)
(* (src/src/archive/mod.rs, src/src/archive/sink.rs) and the local store   *)
(* backend (src/src/store/local/mod.rs, gc.rs, lock.rs, db.rs).            *)
(*                                                                         *)
(* Byte strings are sequences of numbers 0..255.  A file tree is a         *)
(* function from paths (sequences of entry names) to nodes.                *)
(***************************************************************************)
EXTENDS Integers, Sequences, FiniteSets, TLC

(***************************************************************************)
(* Bounds of the model.                                                    *)
(***************************************************************************)
\* how many directory entries one dump may emit before the model stops it
MaxEmit == 3
\* how many store operations the callers start in all
MaxCalls == 2
\* number of processes sharing the store
NumProcs == 2

\* the longest byte string and the longest text given to base32
MaxLen == 3

\* the most calls made through the caching store wrapper
MaxOps == 3

(***************************************************************************)
(* Byte strings of the archive format.                                     *)
(***************************************************************************)
NAR_MAGIC == <<110, 105, 120, 45, 97, 114, 99, 104, 105, 118, 101, 45, 49>>
TagOpen == <<40>>
TagClose == <<41>>
TagType == <<116, 121, 112, 101>>
TagRegular == <<114, 101, 103, 117, 108, 97, 114>>
TagDirectory == <<100, 105, 114, 101, 99, 116, 111, 114, 121>>
TagSymlink == <<115, 121, 109, 108, 105, 110, 107>>
TagExecutable == <<101, 120, 101, 99, 117, 116, 97, 98, 108, 101>>
TagContents == <<99, 111, 110, 116, 101, 110, 116, 115>>
TagEntry == <<101, 110, 116, 114, 121>>
TagName == <<110, 97, 109, 101>>
TagNode == <<110, 111, 100, 101>>
TagTarget == <<116, 97, 114, 103, 101, 116>>
Slash == 47

NameA == <<97>>
NameB == <<98>>
NameC == <<99>>
Hi == <<104, 105>>

Zeros(n) == [i \in 1..n |-> 0]

RECURSIVE Concat(_)
Concat(ss) == IF ss = <<>> THEN <<>> ELSE Head(ss) \o Concat(Tail(ss))

IsPrefix(s, t) == Len(s) <= Len(t) /\ SubSeq(t, 1, Len(s)) = s

Last(s) == s[Len(s)]
Front(s) == SubSeq(s, 1, Len(s) - 1)

\* the k low bytes of n, least significant first: (n >> 8*i) as u8
RECURSIVE LittleEndian(_, _)
LittleEndian(n, k) == IF k = 0 THEN <<>> ELSE <<n % 256>> \o LittleEndian(n \div 256, k - 1)

\* ArchiveSink::write_usize: eight bytes, least significant first
write_usize(len) == LittleEndian(len, 8)

\* ArchiveSink::pad: zero bytes up to the next multiple of eight
pad(len) == IF len % 8 > 0 THEN Zeros(8 - (len % 8)) ELSE <<>>

\* ArchiveSink::write_str: length, payload, padding
write_str(s) == write_usize(Len(s)) \o s \o pad(Len(s))

(***************************************************************************)
(* File trees.                                                             *)
(***************************************************************************)
Reg(x, c) == [type |-> "regular", exec |-> x, contents |-> c, target |-> <<>>]
Dir == [type |-> "directory", exec |-> FALSE, contents |-> <<>>, target |-> <<>>]
Lnk(t) == [type |-> "symlink", exec |-> FALSE, contents |-> <<>>, target |-> t]

\* the names of the entries of directory d in tree w
EntryNames(w, d) ==
  {Last(p) : p \in {q \in DOMAIN w : Len(q) = Len(d) + 1 /\ Front(q) = d}}

DirsOf(w) == {p \in DOMAIN w : w[p].type = "directory"}

\* byte-wise order of names
RECURSIVE BytesLess(_, _)
BytesLess(s, t) ==
  IF t = <<>> THEN FALSE
  ELSE IF s = <<>> THEN TRUE
  ELSE IF Head(s) # Head(t) THEN Head(s) < Head(t)
  ELSE BytesLess(Tail(s), Tail(t))

RECURSIVE SortedSeq(_)
SortedSeq(S) ==
  IF S = {} THEN <<>>
  ELSE LET m == CHOOSE x \in S : \A y \in S \ {x} : BytesLess(x, y)
       IN <<m>> \o SortedSeq(S \ {m})

Perms(S) == {s \in [1..Cardinality(S) -> S] : \A i, j \in 1..Cardinality(S) : s[i] = s[j] => i = j}

\* the tree below path r, re-rooted at r
SubtreeAt(w, r) ==
  LET ps == {p \in DOMAIN w : IsPrefix(r, p)}
  IN [q \in {SubSeq(p, Len(r) + 1, Len(p)) : p \in ps} |-> w[r \o q]]

\* the shapes a top-level entry of the host directory takes in the model
Kinds == {"f0", "fh", "fx", "la", "lb", "lc", "d0", "d1", "d2"}

EntryOf(n, k) ==
  CASE k = "f0" -> (<<n>> :> Reg(FALSE, <<>>))
    [] k = "fh" -> (<<n>> :> Reg(FALSE, Hi))
    [] k = "fx" -> (<<n>> :> Reg(TRUE, Hi))
    [] k = "la" -> (<<n>> :> Lnk(NameA))
    [] k = "lb" -> (<<n>> :> Lnk(NameB))
    [] k = "lc" -> (<<n>> :> Lnk(NameC))
    [] k = "d0" -> (<<n>> :> Dir)
    [] k = "d1" -> (<<n>> :> Dir) @@ (<<n, NameA>> :> Reg(FALSE, Hi))
    [] k = "d2" -> (<<n>> :> Dir) @@ (<<n, NameA>> :> Reg(FALSE, Hi))
                     @@ (<<n, NameB>> :> Lnk(NameA))

Worlds ==
  {(<<>> :> Dir) @@ EntryOf(NameA, ka) : ka \in Kinds}
  \cup {(<<>> :> Dir) @@ EntryOf(NameA, ka) @@ EntryOf(NameB, kb) : ka \in Kinds, kb \in Kinds}

\* the enumeration orders readdir may use: one permutation per directory
Orders(w) == {o \in [DirsOf(w) -> UNION {Perms(EntryNames(w, d)) : d \in DirsOf(w)}] :
               \A d \in DirsOf(w) : o[d] \in Perms(EntryNames(w, d))}


(***************************************************************************)
(* State.                                                                  *)
(***************************************************************************)
VARIABLES
  \* the archive codec
  world,      \* the host file tree the serializer reads
  root,       \* the path handed to dump_path
  rdorder,    \* the order in which read_dir enumerates each directory
  filt,       \* the entry names the filter predicate rejects
  dstack,     \* the activations of dump_path: [path, phase], innermost last
  dstatus,    \* "running", "done" (Ok) or "error" (Err) of the outermost dump_path
  out,        \* the bytes the sink has received
  elog,       \* the entry records emitted so far: [dir, name]
  restored,   \* the outcome of restore_into on the dumped stream: [status, fs]
  \* the local store
  info,       \* the ValidPathInfo the callers of add-nar pass
  source,     \* the byte stream the callers of add-nar pass
  hostfile,   \* the host path the callers of add-path pass
  algo,       \* the hash algorithm the callers of add-path pass
  gcLock,     \* the file gc.lock: [exists, holders (shared)]
  trFile,     \* the temp-roots file of each process: [exists, content, lock]
  lockFile,   \* the lock file of each store path: [exists, size, holder]
  realfs,     \* what lies at the real path of each store path
  canon,      \* whether the metadata at the real path has been canonicalised
  catalog,    \* the rows of ValidPaths
  pc,         \* where each process stands
  op,         \* the operation each process is running
  calls,      \* how many operations have been started
  result,     \* what the operation of each process returned
  local,      \* the locals of the running operation: [dest, hash, len]
  hist,       \* history of each process, kept to state the properties
  \* PathLocks
  plArgs,     \* the arguments of the lock call of each process: [paths, wait]
  plPc,       \* where each process stands in PathLocks::lock
  plIdx,      \* the index of the path the lock call is at
  plHeld,     \* the PathLocks value of each process: the lock files it holds open
  plRet,      \* what the last lock call returned
  plCalls,    \* how many lock calls have been started
  lfiles,     \* the lock files: [exists, size, holder (exclusive), stale (history)]
  \* the catalog (ValidPaths is the variable catalog above)
  refs,       \* the rows of Refs: <<referrer id, reference id>>
  registered, \* history: the infos committed with all their references present
  dbq,        \* history: the last catalog call, its arguments and what it returned
  dbCalls,    \* how many catalog calls have been made
  \* the encodings
  cin,        \* the value to encode: [ty, data], ty = "" for plain bytes
  cenc,       \* the encoding applied to it
  ctext,      \* the text: the result of encode, or the text given to decode
  cres,       \* the result of decode or truncate: [err, val]
  carg,       \* the size given to truncate
  cop,        \* the last function applied
  \* store paths
  pargs,      \* the arguments of the call
  ptext,      \* the text to_string returned: [err, val]
  pres,       \* what the call returned: [err, val]
  pcall,      \* history: what make_fixed_output_path hands to make_store_path
  pop,        \* the last function applied to store paths
  \* the parser
  nin,        \* how the stream was made: [kind, tokens, pos]
  nsrc,       \* the bytes of the stream
  nres,       \* what restore_into returned and did: [err, calls, fs, pos]
  \* flock on one lock file
  fother,     \* the lock another open file holds on the lock file
  fmine,      \* the lock this open file holds on it
  fcall,      \* the last try_lock or poll: [form, ty, errno, granted, ret, polls]
  fcalls,     \* how many times try_lock and poll were called
  \* the hash sink and Hash::hash
  hsent,      \* the frames sent to the hash sink
  hctx,       \* the bytes the hash context has absorbed
  hreads,     \* the reads of the stream Hash::hash has made, in order
  hres,       \* what finish or Hash::hash returned: [op, val]
  \* the caching store wrapper
  kdisk,      \* use_disk_cache
  kcache,     \* the path info cache: "miss", "none" (Some(None)) or "some" for each path
  kstore,     \* the paths valid in the wrapped store
  klast,      \* the last call through the wrapper: [op, path, ret]
  kops,       \* how many calls went through the wrapper
  \* canonicalise_path_metadata
  qroot,      \* the process runs as root
  qorder,     \* the order in which read_dir gives the entries: "up" or "down"
  qbefore,    \* history: the tree before the first call
  qtree,      \* the tree at the path: [path -> [st_mode, st_mtime, st_uid]]
  qfirst,     \* history: the tree after the first call
  qres        \* the calls made and what the last one returned: [calls, err]

avars == <<world, root, rdorder, filt, dstack, dstatus, out, elog, restored>>
svars == <<info, source, hostfile, algo, gcLock, trFile, lockFile, realfs, canon,
           catalog, pc, op, calls, result, local, hist>>
lvars == <<plArgs, plPc, plIdx, plHeld, plRet, plCalls, lfiles>>
dvars == <<refs, registered, dbq, dbCalls>>
cvars == <<cin, cenc, ctext, cres, carg, cop>>
pvars == <<pargs, ptext, pres, pcall, pop>>
nvars == <<nin, nsrc, nres>>
fvars == <<fother, fmine, fcall, fcalls>>
hvars == <<hsent, hctx, hreads, hres>>
kvars == <<kdisk, kcache, kstore, klast, kops>>
qvars == <<qroot, qorder, qbefore, qtree, qfirst, qres>>
vars == <<avars, svars, lvars, dvars, cvars, pvars, nvars, fvars, hvars, kvars, qvars>>

(***************************************************************************)
(* The filesystem calls the serializer makes.                              *)
(***************************************************************************)
\* path resolution as the kernel does it: symlinks are followed, a symlink's
\* target is a name relative to the directory holding the link
RECURSIVE ResolveFrom(_, _, _, _)
ResolveFrom(w, cur, rest, fuel) ==
  IF rest = <<>> THEN [ok |-> TRUE, path |-> cur]
  ELSE LET cand == Append(cur, Head(rest))
       IN IF cand \notin DOMAIN w THEN [ok |-> FALSE, path |-> cand]
          ELSE IF w[cand].type = "symlink"
                 THEN IF fuel = 0 THEN [ok |-> FALSE, path |-> cand]
                      ELSE ResolveFrom(w, cur, <<w[cand].target>> \o Tail(rest), fuel - 1)
          ELSE IF Tail(rest) # <<>> /\ w[cand].type # "directory"
                 THEN [ok |-> FALSE, path |-> cand]
          ELSE ResolveFrom(w, cand, Tail(rest), fuel)

\* fs::canonicalize
canonicalize(w, p) == ResolveFrom(w, <<>>, p, Cardinality(DOMAIN w))

\* fs::metadata: stat, which follows symlinks
metadata(w, p) ==
  LET r == canonicalize(w, p)
  IN IF r.ok THEN [ok |-> TRUE, node |-> w[r.path]] ELSE [ok |-> FALSE, node |-> Dir]

\* fs::read_dir: a fresh enumeration of the directory at p
read_dir(w, o, p) == o[canonicalize(w, p).path]

\* PathFilter called on a child path
filter(rejected, p) == Last(p) \notin rejected

\* Path::display of an absolute path
RECURSIVE display(_)
display(p) == IF p = <<>> THEN <<>> ELSE <<Slash>> \o Head(p) \o display(Tail(p))

(***************************************************************************)
(* The parser and the restore sink (src/src/archive/sink.rs).              *)
(*                                                                         *)
(* The parser state is a record: pos, the index of the next unread byte    *)
(* of the source; fs, the tree below the sink's root (the root itself is   *)
(* the path <<>>); open, last and off, the sink's last_file with its file  *)
(* offset; err, "" while no error has been raised; calls, the history of   *)
(* the calls the parser has made to the sink.                              *)
(***************************************************************************)
\* usize::MAX; lengths that do not fit the model's integers saturate to it
UsizeMax == 2147483647

NewSink(dest) ==
  [pos |-> 1, fs |-> dest, open |-> FALSE, last |-> <<>>, off |-> 0, err |-> "",
   calls |-> <<>>]

Fail(st, e) == [st EXCEPT !.err = e]

\* the parser calls method m of the sink with the path p
Called(st, m, p) == [st EXCEPT !.calls = Append(@, [call |-> m, path |-> p])]

\* read_num: eight bytes, least significant first
read_num(src, pos) ==
  IF pos + 7 > Len(src) THEN [err |-> "Eof", val |-> 0, pos |-> pos]
  ELSE LET high == \E i \in 4..7 : src[pos + i] # 0
       IN [err |-> "",
           val |-> IF high \/ src[pos + 3] >= 128 THEN UsizeMax
                   ELSE src[pos] + 256 * src[pos + 1] + 65536 * src[pos + 2]
                          + 16777216 * src[pos + 3],
           pos |-> pos + 8]

\* read_padding when the bytes are skipped without a look at them
read_paddingUnchecked(src, pos, len) ==
  IF len % 8 > 0
    THEN LET n == 8 - (len % 8)
         IN IF pos + n - 1 > Len(src) THEN [err |-> "Eof", pos |-> pos]
            ELSE [err |-> "", pos |-> pos + n]
    ELSE [err |-> "", pos |-> pos]

\* read_padding: the bytes up to the next multiple of eight must be zero
read_padding(src, pos, len) ==
  IF len % 8 > 0
    THEN LET n == 8 - (len % 8)
         IN IF pos + n - 1 > Len(src) THEN [err |-> "Eof", pos |-> pos]
            ELSE IF \E i \in 0..(n - 1) : src[pos + i] > 0
              THEN [err |-> "NonzeroPadding", pos |-> pos + n]
            ELSE [err |-> "", pos |-> pos + n]
    ELSE [err |-> "", pos |-> pos]

\* read_bytes_len: a length-prefixed, padded byte string of at most max bytes
read_bytes_len(src, pos, max) ==
  LET n == read_num(src, pos)
  IN IF n.err # "" THEN [err |-> n.err, val |-> <<>>, pos |-> pos]
     ELSE IF n.val > max THEN [err |-> "StringTooLong", val |-> <<>>, pos |-> n.pos]
     ELSE IF n.pos + n.val - 1 > Len(src) THEN [err |-> "Eof", val |-> <<>>, pos |-> n.pos]
     ELSE LET pd == read_padding(src, n.pos + n.val, n.val)
          IN [err |-> pd.err,
              val |-> SubSeq(src, n.pos, n.pos + n.val - 1),
              pos |-> pd.pos]

read_bytes(src, pos) == read_bytes_len(src, pos, UsizeMax)

\* String::from_utf8 succeeds; the model's streams hold ASCII bytes only
from_utf8_ok(b) == \A i \in 1..Len(b) : b[i] < 128

ParentIsDir(fs, path) ==
  path = <<>> \/ (Front(path) \in DOMAIN fs /\ fs[Front(path)].type = "directory")

\* RestoreSink::create_directory: create_dir fails on an existing path
create_directory(st, path) ==
  LET st0 == Called(st, "create_directory", path)
  IN IF path \in DOMAIN st0.fs \/ ~ParentIsDir(st0.fs, path) THEN Fail(st0, "Io")
     ELSE [st0 EXCEPT !.fs = (path :> Dir) @@ st0.fs]

\* RestoreSink::create_file: File::create makes the file or truncates it
create_file(st, path) ==
  LET st0 == Called(st, "create_file", path)
  IN IF ~ParentIsDir(st0.fs, path) THEN Fail(st0, "Io")
     ELSE IF path \in DOMAIN st0.fs /\ st0.fs[path].type # "regular" THEN Fail(st0, "Io")
     ELSE [st0 EXCEPT !.fs = (path :> Reg(IF path \in DOMAIN st0.fs
                                            THEN st0.fs[path].exec ELSE FALSE, <<>>)) @@ st0.fs,
                     !.open = TRUE, !.last = path, !.off = 0]

\* RestoreSink::create_symlink is todo!(): the call panics
create_symlink(st, path, target) == Fail(Called(st, "create_symlink", path), "Panic")

\* RestoreSink::set_executable: fchmod on last_file
set_executable(st) ==
  LET st0 == Called(st, "set_executable", <<>>)
  IN IF ~st0.open THEN Fail(st0, "InvalidState")
     ELSE [st0 EXCEPT !.fs[st0.last].exec = TRUE]

\* RestoreSink::allocate_contents: posix_fallocate(fd, 0, size), which the
\* kernel refuses with EINVAL for size 0 and which extends a shorter file
allocate_contents(st, size) ==
  LET st0 == Called(st, "allocate_contents", <<>>)
  IN IF ~st0.open THEN Fail(st0, "InvalidState")
     ELSE IF size = 0 THEN Fail(st0, "Io")
     ELSE IF size = UsizeMax THEN Fail(st0, "Io")
     ELSE LET c == st0.fs[st0.last].contents
          IN [st0 EXCEPT !.fs[st0.last].contents =
                           IF Len(c) < size THEN c \o Zeros(size - Len(c)) ELSE c]

\* RestoreSink::receive_contents: write the bytes at the file offset
receive_contents(st, bytes) ==
  LET st0 == Called(st, "receive_contents", <<>>)
  IN IF ~st0.open THEN Fail(st0, "InvalidState")
     ELSE LET c == st0.fs[st0.last].contents
              n == Len(bytes)
              new == SubSeq(c, 1, st0.off) \o bytes
                       \o (IF Len(c) > st0.off + n THEN SubSeq(c, st0.off + n + 1, Len(c)) ELSE <<>>)
          IN [st0 EXCEPT !.fs[st0.last].contents = new, !.off = st0.off + n]

\* the check of an entry name without the cases "." and ".."
InvalidNameNoDots(name) ==
  \/ name = <<>>
  \/ \E i \in 1..Len(name) : name[i] = Slash \/ name[i] = 0

InvalidName(name) ==
  \/ name = <<>>
  \/ name = <<46>>
  \/ name = <<46, 46>>
  \/ \E i \in 1..Len(name) : name[i] = Slash \/ name[i] = 0

RECURSIVE parse(_, _, _)
RECURSIVE ParseFields(_, _, _, _)
RECURSIVE ParseEntry(_, _, _, _)

\* the "contents" field: size, allocate, receive, padding
ParseContents(src, st) ==
  LET n == read_num(src, st.pos)
  IN IF n.err # "" THEN Fail(st, n.err)
     ELSE LET a == allocate_contents([st EXCEPT !.pos = n.pos], n.val)
          IN IF a.err # "" THEN a
             ELSE LET avail == IF n.pos + n.val - 1 > Len(src)
                                 THEN Len(src) - n.pos + 1 ELSE n.val
                      r == receive_contents(a, SubSeq(src, n.pos, n.pos + avail - 1))
                      pd == read_padding(src, n.pos + avail, n.val)
                  IN IF r.err # "" THEN r
                     ELSE [r EXCEPT !.pos = pd.pos, !.err = pd.err]

\* the guards of the match when every field is taken in every node
FitsVariantAny(field, ty) == field \in {TagContents, TagExecutable, TagEntry, TagTarget}

\* the guards of the match in parse: contents and executable in a file,
\* entry in a directory, target in a symlink
FitsVariant(field, ty) ==
  \/ field \in {TagContents, TagExecutable} /\ ty = "File"
  \/ field = TagEntry /\ ty = "Dir"
  \/ field = TagTarget /\ ty = "Symlink"

\* the loop over the fields of one node, after its "("; ty is the node's
\* type so far ("none" before the type field)
ParseFields(src, st, path, ty) ==
  LET s == read_bytes(src, st.pos)
      st1 == [st EXCEPT !.pos = s.pos]
  IN IF s.err # "" THEN Fail(st, s.err)
     ELSE IF s.val = TagClose THEN st1
     ELSE IF s.val = TagType THEN
       IF ty # "none" THEN Fail(st1, "MultipleTypeFields")
       ELSE LET t == read_bytes(src, st1.pos)
                st2 == [st1 EXCEPT !.pos = t.pos]
            IN IF t.err # "" THEN Fail(st1, t.err)
               ELSE IF t.val = TagRegular THEN
                 LET c == create_file(st2, path)
                 IN IF c.err # "" THEN c ELSE ParseFields(src, c, path, "File")
               ELSE IF t.val = TagDirectory THEN
                 LET c == create_directory(st2, path)
                 IN IF c.err # "" THEN c ELSE ParseFields(src, c, path, "Dir")
               ELSE IF t.val = TagSymlink THEN ParseFields(src, st2, path, "Symlink")
               ELSE Fail(st2, "UnknownArchiveType")
     ELSE IF s.val = TagContents /\ FitsVariant(s.val, ty) THEN
       LET c == ParseContents(src, st1)
       IN IF c.err # "" THEN c ELSE ParseFields(src, c, path, ty)
     ELSE IF s.val = TagExecutable /\ FitsVariant(s.val, ty) THEN
       LET m == read_bytes(src, st1.pos)
       IN IF m.err # "" THEN Fail(st1, m.err)
          ELSE IF m.val # <<>> THEN Fail([st1 EXCEPT !.pos = m.pos], "ExecutableMarker")
          ELSE LET x == set_executable([st1 EXCEPT !.pos = m.pos])
               IN IF x.err # "" THEN x ELSE ParseFields(src, x, path, ty)
     ELSE IF s.val = TagEntry /\ FitsVariant(s.val, ty) THEN
       LET o == read_bytes(src, st1.pos)
       IN IF o.err # "" THEN Fail(st1, o.err)
          ELSE IF o.val # TagOpen THEN Fail([st1 EXCEPT !.pos = o.pos], "Expected")
          ELSE LET e == ParseEntry(src, [st1 EXCEPT !.pos = o.pos], path, <<>>)
               IN IF e.err # "" THEN e ELSE ParseFields(src, e, path, ty)
     ELSE IF s.val = TagTarget /\ FitsVariant(s.val, ty) THEN
       LET t == read_bytes(src, st1.pos)
       IN IF t.err # "" THEN Fail(st1, t.err)
          ELSE IF ~from_utf8_ok(t.val) THEN Fail([st1 EXCEPT !.pos = t.pos], "Utf8")
          ELSE LET c == create_symlink([st1 EXCEPT !.pos = t.pos], path, t.val)
               IN IF c.err # "" THEN c ELSE ParseFields(src, c, path, ty)
     ELSE Fail(st1, "UnknownField")

\* the loop over the fields of one directory entry, after its "("
ParseEntry(src, st, path, name) ==
  LET s == read_bytes(src, st.pos)
      st1 == [st EXCEPT !.pos = s.pos]
  IN IF s.err # "" THEN Fail(st, s.err)
     ELSE IF s.val = TagClose THEN st1
     ELSE IF s.val = TagName THEN
       LET n == read_bytes(src, st1.pos)
       IN IF n.err # "" THEN Fail(st1, n.err)
          ELSE IF InvalidName(n.val) THEN Fail([st1 EXCEPT !.pos = n.pos], "InvalidFilename")
          ELSE ParseEntry(src, [st1 EXCEPT !.pos = n.pos], path, n.val)
     ELSE IF s.val = TagNode THEN
       IF name = <<>> THEN Fail(st1, "Expected")
       ELSE IF ~from_utf8_ok(name) THEN Fail(st1, "Utf8")
       ELSE LET c == parse(src, st1, Append(path, name))
            IN IF c.err # "" THEN c ELSE ParseEntry(src, c, path, name)
     ELSE Fail(st1, "UnknownField")

\* parse: one node; path is <<>> for the root (None in the code)
parse(src, st, path) ==
  LET s == read_bytes(src, st.pos)
  IN IF s.err # "" THEN Fail(st, s.err)
     ELSE IF s.val # TagOpen THEN Fail([st EXCEPT !.pos = s.pos], "InvalidNar")
     ELSE ParseFields(src, [st EXCEPT !.pos = s.pos], path, "none")

\* parse_dump when the first string is not compared with the magic
parse_dumpAnyMagic(st, src) ==
  LET vers == read_bytes_len(src, st.pos, Len(NAR_MAGIC))
  IN IF vers.err # "" THEN Fail(st, vers.err)
     ELSE parse(src, [st EXCEPT !.pos = vers.pos], <<>>)

\* parse_dump: the magic, then the root node
parse_dump(st, src) ==
  LET vers == read_bytes_len(src, st.pos, Len(NAR_MAGIC))
  IN IF vers.err # "" THEN Fail(st, vers.err)
     ELSE IF vers.val # NAR_MAGIC THEN Fail([st EXCEPT !.pos = vers.pos], "InvalidNar")
     ELSE parse(src, [st EXCEPT !.pos = vers.pos], <<>>)

\* restore_into: parse the source into a sink rooted at the destination;
\* dest is what lies at the destination beforehand
restore_into(dest, src) == parse_dump(NewSink(dest), src)

\* the empty function: nothing lies at the destination
NoTree == [p \in {} |-> Dir]

(***************************************************************************)
(* dump_path and dump_file (src/src/archive/mod.rs).                       *)
(***************************************************************************)
dump_file(c) ==
  write_str(TagContents) \o write_usize(Len(c)) \o c
    \o (IF Len(c) % 8 > 0 THEN Zeros(8 - (Len(c) % 8)) ELSE <<>>)

\* what dump_path writes for a path whose metadata says regular file
dump_regular(node) ==
  write_str(TagOpen) \o write_str(TagType) \o write_str(TagRegular)
    \o (IF node.exec THEN write_str(TagExecutable) \o write_str(<<>>) ELSE <<>>)
    \o dump_file(node.contents)
    \o write_str(TagClose)

Top == dstack[Len(dstack)]
Pop == SubSeq(dstack, 1, Len(dstack) - 1)
SetPhase(ph) == [dstack EXCEPT ![Len(dstack)].phase = ph]

\* dump_path from its entry to the end of the type header; a regular file
\* and a symlink run to the closing ")" and return
DumpStart ==
  /\ dstatus = "running" /\ dstack # <<>> /\ Top.phase = "start"
  /\ LET path == Top.path
         meta == metadata(world, path)
     IN IF ~meta.ok
          THEN dstatus' = "error" /\ UNCHANGED <<dstack, out>>
        ELSE IF meta.node.type = "regular"
          THEN /\ out' = out \o dump_regular(meta.node)
               /\ dstack' = Pop
               /\ UNCHANGED dstatus
        ELSE IF meta.node.type = "directory"
          THEN /\ out' = out \o write_str(TagOpen) \o write_str(TagType)
                           \o write_str(TagDirectory)
               /\ dstack' = SetPhase("loop")
               /\ UNCHANGED dstatus
        ELSE /\ out' = out \o write_str(TagOpen) \o write_str(TagType)
                           \o write_str(TagSymlink) \o write_str(TagTarget)
                           \o write_str(display(canonicalize(world, path).path))
                           \o write_str(TagClose)
             /\ dstack' = Pop
             /\ UNCHANGED dstatus
  /\ UNCHANGED <<world, root, rdorder, filt, elog, restored>>
  /\ UNCHANGED <<svars, lvars, dvars, cvars, pvars, nvars, fvars, hvars, kvars, qvars>>

\* one evaluation of the while-let condition of the directory loop, which
\* opens the directory anew and takes the first entry of the enumeration
DumpLoop ==
  /\ dstatus = "running" /\ dstack # <<>> /\ Top.phase = "loop"
  /\ LET path == Top.path
         es == read_dir(world, rdorder, path)
     IN IF es = <<>>
          THEN /\ out' = out \o write_str(TagClose)
               /\ dstack' = Pop
               /\ UNCHANGED elog
        ELSE IF filter(filt, Append(path, Head(es)))
          THEN /\ Len(elog) < MaxEmit
               /\ out' = out \o write_str(TagEntry) \o write_str(TagOpen)
                           \o write_str(TagName) \o write_str(Head(es))
                           \o write_str(TagNode)
               /\ dstack' = Append(SetPhase("entry"),
                                   [path |-> Append(path, Head(es)), phase |-> "start"])
               /\ elog' = Append(elog, [dir |-> path, name |-> Head(es)])
        ELSE UNCHANGED <<out, dstack, elog>>
  /\ UNCHANGED <<world, root, rdorder, filt, dstatus, restored>>
  /\ UNCHANGED <<svars, lvars, dvars, cvars, pvars, nvars, fvars, hvars, kvars, qvars>>

\* the recursive call for an entry has returned: close the entry record
DumpEntryClose ==
  /\ dstatus = "running" /\ dstack # <<>> /\ Top.phase = "entry"
  /\ out' = out \o write_str(TagClose)
  /\ dstack' = SetPhase("loop")
  /\ UNCHANGED <<world, root, rdorder, filt, dstatus, elog, restored>>
  /\ UNCHANGED <<svars, lvars, dvars, cvars, pvars, nvars, fvars, hvars, kvars, qvars>>

\* the outermost dump_path returns Ok
DumpReturn ==
  /\ dstatus = "running" /\ dstack = <<>>
  /\ dstatus' = "done"
  /\ UNCHANGED <<world, root, rdorder, filt, dstack, out, elog, restored>>
  /\ UNCHANGED <<svars, lvars, dvars, cvars, pvars, nvars, fvars, hvars, kvars, qvars>>

\* restore_into an empty destination, fed with the stream dump_path produced
RestoreDump ==
  /\ dstatus = "done" /\ restored.status = "none"
  /\ LET r == restore_into(NoTree, out)
     IN restored' = [status |-> IF r.err = "" THEN "ok" ELSE r.err, fs |-> r.fs]
  /\ UNCHANGED <<world, root, rdorder, filt, dstack, dstatus, out, elog>>
  /\ UNCHANGED <<svars, lvars, dvars, cvars, pvars, nvars, fvars, hvars, kvars, qvars>>

(***************************************************************************)
(* Text encodings of byte strings (src/src/base32.rs) and of hashes        *)
(* (src/src/hash.rs).  A string is the sequence of its bytes.              *)
(***************************************************************************)
BASE32_CHARS ==
  <<48, 49, 50, 51, 52, 53, 54, 55, 56, 57, 97, 98, 99, 100, 102, 103, 104, 105, 106, 107, 108, 109, 110, 112, 113, 114, 115, 118, 119, 120, 121, 122>>

HexChars == <<48, 49, 50, 51, 52, 53, 54, 55, 56, 57, 97, 98, 99, 100, 101, 102>>

Base64Chars ==
  <<65, 66, 67, 68, 69, 70, 71, 72, 73, 74, 75, 76, 77, 78, 79, 80, 81, 82, 83, 84, 85, 86, 87, 88, 89, 90, 97, 98, 99, 100, 101, 102, 103, 104, 105, 106, 107, 108, 109, 110, 111, 112, 113, 114, 115, 116, 117, 118, 119, 120, 121, 122, 48, 49, 50, 51, 52, 53, 54, 55, 56, 57, 43, 47>>

Colon == 58
Dash == 45
Equals == 61
NoChar == 255

RECURSIVE Pow2(_)
Pow2(n) == IF n = 0 THEN 1 ELSE 2 * Pow2(n - 1)

Reverse(s) == [i \in 1..Len(s) |-> s[Len(s) + 1 - i]]

\* BASE32_CHARS_REVERSE: the value of a character, 0xff outside the alphabet
BASE32_CHARS_REVERSE(c) ==
  IF \E i \in 1..Len(BASE32_CHARS) : BASE32_CHARS[i] = c
    THEN (CHOOSE i \in 1..Len(BASE32_CHARS) : BASE32_CHARS[i] = c) - 1
    ELSE NoChar

encode_len(i) == IF i = 0 THEN 0 ELSE (i * 8 - 1) \div 5 + 1

decode_len(i) == (i * 5) \div 8

\* the inner loop of encode_into: emit characters while more than 5 bits wait
RECURSIVE EncodeDrain(_)
EncodeDrain(st) ==
  IF st.nr > 5
    THEN EncodeDrain([bits |-> st.bits \div 32, nr |-> st.nr - 5,
                      em |-> Append(st.em, BASE32_CHARS[(st.bits % 32) + 1])])
    ELSE st

\* the outer loop of encode_into over the bytes lo..hi of the input, in
\* order, from the state st; bits_left is a u16, and the inner loop leaves at
\* most 5 bits waiting
RECURSIVE EncodeBytes(_, _, _, _)
EncodeBytes(input, lo, hi, st) ==
  IF lo > hi THEN st
  ELSE IF lo = hi
    THEN EncodeDrain([bits |-> (st.bits + input[lo] * Pow2(st.nr)) % 65536,
                      nr |-> st.nr + 8, em |-> st.em])
  ELSE LET mid == (lo + hi) \div 2
           left == EncodeBytes(input, lo, mid, st)
       IN IF left.nr <= 5 THEN EncodeBytes(input, mid + 1, hi, left) ELSE left

\* encode_into when the characters are written from the start of the output
encode_intoForward(input, outlen) ==
  LET st == EncodeBytes(input, 1, Len(input), [bits |-> 0, nr |-> 0, em |-> <<>>])
      em == IF st.nr > 0 THEN Append(st.em, BASE32_CHARS[(st.bits % 32) + 1]) ELSE st.em
  IN IF encode_len(Len(input)) # outlen \/ Len(em) # outlen
       THEN [err |-> "Panic", val |-> <<>>]
       ELSE [err |-> "", val |-> em]

\* encode_into: characters are written from the end of the output to its
\* start; both assertions must hold
encode_into(input, outlen) ==
  LET st == EncodeBytes(input, 1, Len(input), [bits |-> 0, nr |-> 0, em |-> <<>>])
      em == IF st.nr > 0 THEN Append(st.em, BASE32_CHARS[(st.bits % 32) + 1]) ELSE st.em
  IN IF encode_len(Len(input)) # outlen \/ Len(em) # outlen
       THEN [err |-> "Panic", val |-> <<>>]
       ELSE [err |-> "", val |-> Reverse(em)]

base32_encode(input) == encode_into(input, encode_len(Len(input)))

\* one turn of the loop of decode_into, for the character c
DecodeChar(c, outlen, st) ==
  LET b == BASE32_CHARS_REVERSE(c)
      bits == (st.bits + b * Pow2(st.nr)) % 65536
      nr == st.nr + 5
  IN IF st.err # "" THEN st
     ELSE IF b = NoChar THEN [st EXCEPT !.err = "InvalidBase32"]
     ELSE IF nr >= 8
       THEN IF Len(st.out) >= outlen THEN [st EXCEPT !.err = "Panic"]
            ELSE [bits |-> bits \div 256, nr |-> nr - 8,
                  out |-> Append(st.out, bits % 256), err |-> ""]
     ELSE [bits |-> bits, nr |-> nr, out |-> st.out, err |-> ""]

\* the loop of decode_into over the characters hi..lo of the input, the last
\* one first, from the state st; an error ends it
RECURSIVE DecodeChars(_, _, _, _, _)
DecodeChars(input, lo, hi, outlen, st) ==
  IF lo > hi THEN st
  ELSE IF lo = hi THEN DecodeChar(input[lo], outlen, st)
  ELSE LET mid == (lo + hi) \div 2
           right == DecodeChars(input, mid + 1, hi, outlen, st)
       IN IF right.err # "" THEN right ELSE DecodeChars(input, lo, mid, outlen, right)

\* decode_into when the bits left after the last byte are not looked at
decode_intoLenient(input, outlen) ==
  LET st == DecodeChars(input, 1, Len(input), outlen,
                        [bits |-> 0, nr |-> 0, out |-> <<>>, err |-> ""])
  IN IF st.err # "" THEN [err |-> st.err, val |-> <<>>]
     ELSE [err |-> "", val |-> st.out \o Zeros(outlen - Len(st.out))]

\* decode_into a zeroed buffer of outlen bytes
decode_into(input, outlen) ==
  LET st == DecodeChars(input, 1, Len(input), outlen,
                        [bits |-> 0, nr |-> 0, out |-> <<>>, err |-> ""])
  IN IF st.err # "" THEN [err |-> st.err, val |-> <<>>]
     ELSE IF st.nr > 0 /\ st.bits # 0 THEN [err |-> "InvalidBase32", val |-> <<>>]
     ELSE [err |-> "", val |-> st.out \o Zeros(outlen - Len(st.out))]

base32_decode(input) == decode_into(input, decode_len(Len(input)))

\* binascii::bin2hex
RECURSIVE bin2hex(_)
bin2hex(b) ==
  IF b = <<>> THEN <<>>
  ELSE <<HexChars[(Head(b) \div 16) + 1], HexChars[(Head(b) % 16) + 1]>> \o bin2hex(Tail(b))

\* the value of a hexadecimal digit of either case, NoChar for other bytes
HexValue(c) ==
  IF c >= 48 /\ c <= 57 THEN c - 48
  ELSE IF c >= 97 /\ c <= 102 THEN c - 87
  ELSE IF c >= 65 /\ c <= 70 THEN c - 55
  ELSE NoChar

\* binascii::hex2bin
RECURSIVE HexPairs(_)
HexPairs(s) ==
  IF s = <<>> THEN <<>> ELSE <<HexValue(s[1]) * 16 + HexValue(s[2])>> \o HexPairs(SubSeq(s, 3, Len(s)))

hex2bin(s) ==
  IF Len(s) % 2 # 0 \/ \E i \in 1..Len(s) : HexValue(s[i]) = NoChar
    THEN [err |-> "InvalidInput", val |-> <<>>]
    ELSE [err |-> "", val |-> HexPairs(s)]

\* binascii::b64encode: the standard alphabet, padded with "="
RECURSIVE b64encode(_)
b64encode(b) ==
  IF b = <<>> THEN <<>>
  ELSE LET n == IF Len(b) >= 3 THEN 3 ELSE Len(b)
           v == b[1] * 65536 + (IF n >= 2 THEN b[2] * 256 ELSE 0) + (IF n >= 3 THEN b[3] ELSE 0)
       IN <<Base64Chars[(v \div 262144) + 1], Base64Chars[((v \div 4096) % 64) + 1],
            IF n >= 2 THEN Base64Chars[((v \div 64) % 64) + 1] ELSE Equals,
            IF n >= 3 THEN Base64Chars[(v % 64) + 1] ELSE Equals>>
          \o b64encode(SubSeq(b, n + 1, Len(b)))

\* HashType, its Display and its FromStr
HashTypes == {"md5", "sha1", "sha256", "sha512"}

size(ty) == CASE ty = "md5" -> 16 [] ty = "sha1" -> 20 [] ty = "sha256" -> 32 [] ty = "sha512" -> 64

to_string(ty) ==
  CASE ty = "md5" -> <<109, 100, 53>>
    [] ty = "sha1" -> <<115, 104, 97, 49>>
    [] ty = "sha256" -> <<115, 104, 97, 50, 53, 54>>
    [] ty = "sha512" -> <<115, 104, 97, 53, 49, 50>>

from_str(s) ==
  IF \E ty \in HashTypes : to_string(ty) = s
    THEN [err |-> "", ty |-> CHOOSE ty \in HashTypes : to_string(ty) = s]
    ELSE [err |-> "UnknownHashType", ty |-> ""]

len_base16(n) == n * 2

len_base32(n) == (n * 8 - 1) \div 5 + 1

\* ((4 * size / 3) + 3) & !3
len_base64(n) == LET x == (4 * n) \div 3 + 3 IN x - (x % 4)

Encodings == {"Base64", "Base32", "Base16", "SRI"}

\* A Hash is its type and as_bytes(), the first len bytes of data; the
\* bytes of data after len are zero and take no part in PartialEq.
as_bytes(h) == h.data

\* Hash::encode_impl; a failed assertion or expect is the outcome "Panic"
encode_impl(h, encoding) ==
  CASE encoding = "Base16" ->
         IF len_base16(Len(as_bytes(h))) < 2 * Len(as_bytes(h))
           THEN [err |-> "Panic", val |-> <<>>]
           ELSE [err |-> "", val |-> bin2hex(as_bytes(h))]
    [] encoding = "Base32" -> encode_into(as_bytes(h), len_base32(Len(as_bytes(h))))
    [] OTHER ->
         IF len_base64(Len(as_bytes(h))) < Len(b64encode(as_bytes(h)))
           THEN [err |-> "Panic", val |-> <<>>]
           ELSE [err |-> "", val |-> b64encode(as_bytes(h))]

\* the text of a hash: the name of the type, the separator, and the encoded
\* bytes e
TypedText(h, encoding, e) ==
  [err |-> e.err,
   val |-> IF e.err # "" THEN <<>>
           ELSE to_string(h.ty) \o <<IF encoding = "SRI" THEN Dash ELSE Colon>> \o e.val]

\* Hash::encode_with_type
encode_with_type(h, encoding) == TypedText(h, encoding, encode_impl(h, encoding))

\* util::break_str: the text before and after the first occurrence of ch
break_str(s, ch) ==
  IF \E i \in 1..Len(s) : s[i] = ch
    THEN LET i == CHOOSE j \in 1..Len(s) : s[j] = ch /\ \A k \in 1..(j - 1) : s[k] # ch
         IN [some |-> TRUE, left |-> SubSeq(s, 1, i - 1), right |-> SubSeq(s, i + 1, Len(s))]
    ELSE [some |-> FALSE, left |-> <<>>, right |-> <<>>]

NoHash == [ty |-> "", data |-> <<>>]

\* Hash::decode_with_type: base16 and base32 by the length of the text, and
\* todo!() for every other text
decode_with_type(input, ty, sri) ==
  IF ~sri /\ Len(input) = len_base16(size(ty))
    THEN LET r == hex2bin(input)
         IN IF r.err # "" THEN [err |-> r.err, hash |-> NoHash]
            ELSE [err |-> "", hash |-> [ty |-> ty, data |-> SubSeq(r.val \o Zeros(64), 1, size(ty))]]
  ELSE IF ~sri /\ Len(input) = len_base32(size(ty))
    THEN LET r == decode_into(input, 64)
         IN IF r.err # "" THEN [err |-> r.err, hash |-> NoHash]
            ELSE [err |-> "", hash |-> [ty |-> ty, data |-> SubSeq(r.val, 1, size(ty))]]
  ELSE [err |-> "Panic", hash |-> NoHash]

\* the two arms of Hash::decode after the separator is found
DecodeTyped(b, sri) ==
  LET t == from_str(b.left)
  IN IF t.err # "" THEN [err |-> t.err, hash |-> NoHash]
     ELSE decode_with_type(b.right, t.ty, sri)

\* Hash::decode
decode(input) ==
  IF break_str(input, Colon).some THEN DecodeTyped(break_str(input, Colon), FALSE)
  ELSE IF break_str(input, Dash).some THEN DecodeTyped(break_str(input, Dash), TRUE)
  ELSE [err |-> "UntypedHash", hash |-> NoHash]

\* the bit b of a byte
Bit(x, b) == (x \div Pow2(b)) % 2

\* ^ on two bytes
Xor(x, y) ==
  LET bit(b) == (Bit(x, b) + Bit(y, b)) % 2
  IN bit(0) + 2 * bit(1) + 4 * bit(2) + 8 * bit(3)
       + 16 * bit(4) + 32 * bit(5) + 64 * bit(6) + 128 * bit(7)

\* the loop of truncate over the bytes lo..hi of the hash, in order, on the
\* 64-byte buffer data: data[i % new_size] ^= self.data[i], with indices
\* counted from 0
RECURSIVE TruncateBytes(_, _, _, _, _)
TruncateBytes(h, new_size, lo, hi, data) ==
  IF lo > hi THEN data
  ELSE IF lo = hi
    THEN [data EXCEPT ![((lo - 1) % new_size) + 1] = Xor(@, h.data[lo])]
  ELSE LET mid == (lo + hi) \div 2
           left == TruncateBytes(h, new_size, lo, mid, data)
       IN IF Len(left) = 64 THEN TruncateBytes(h, new_size, mid + 1, hi, left) ELSE left

\* truncate when it keeps the first new_size bytes
truncateFirst(h, new_size) ==
  IF new_size >= Len(h.data) THEN [err |-> "", val |-> h]
  ELSE [err |-> "", val |-> [ty |-> h.ty, data |-> SubSeq(h.data, 1, new_size)]]

\* Hash::truncate; i % new_size panics when new_size is 0
truncate(h, new_size) ==
  IF new_size >= Len(h.data) THEN [err |-> "", val |-> h]
  ELSE IF new_size = 0 THEN [err |-> "Panic", val |-> NoHash]
  ELSE [err |-> "",
        val |-> [ty |-> h.ty,
                 data |-> SubSeq(TruncateBytes(h, new_size, 1, Len(h.data), Zeros(64)),
                                 1, new_size)]]

(***************************************************************************)
(* The local store (src/src/store/local/mod.rs).                           *)
(*                                                                         *)
(* The store directory, the temp-roots directory and the state directory   *)
(* exist.  Every await is a point where another process may run, so each   *)
(* action below is the code between two awaits on shared files.            *)
(***************************************************************************)
Procs == 1..NumProcs

\* hash::Context: input absorbs bytes, finish gives the digest.  The digest
\* is a stand-in for the cryptographic one: a checksum that depends on every
\* byte and on its position, summed over the bytes lo..hi of b.
RECURSIVE absorb(_, _, _)
absorb(b, lo, hi) ==
  IF lo > hi THEN 0
  ELSE IF lo = hi THEN (lo * (b[lo] + 1)) % 65521
  ELSE LET mid == (lo + hi) \div 2
       IN (absorb(b, lo, mid) + absorb(b, mid + 1, hi)) % 65521

\* Context::finish: a hash of the type whose bytes are the checksum, least
\* significant byte first, and zeros up to the size of the type
hash_bytes(b, ty) ==
  [ty |-> ty, data |-> LittleEndian(absorb(b, 1, Len(b)), 2) \o Zeros(size(ty) - 2)]

None == [some |-> FALSE, val |-> 0]
Some(v) == [some |-> TRUE, val |-> v]
unwrap_or_default(o) == IF o.some THEN o.val ELSE 0

\* the store path add-path derives from the algorithm and the contents of
\* the host file (hash_file, then make_fixed_output_path)
fixed_dest(contents, a) == [name |-> "f", key |-> <<a, contents>>]

Algos == {"sha256", "sha1"}
HostFiles == {Reg(FALSE, Hi), Dir}
StorePaths == {fixed_dest(Hi, a) : a \in Algos}

\* Store::print_store_path
print_store_path(sp) == <<"/store", sp>>

\* the archives the callers of add-nar stream
NarFile == write_str(NAR_MAGIC) \o dump_regular(Reg(FALSE, Hi))
NarLink ==
  write_str(NAR_MAGIC) \o write_str(TagOpen) \o write_str(TagType) \o write_str(TagSymlink)
    \o write_str(TagTarget) \o write_str(NameA) \o write_str(TagClose)

\* a byte stream is a sequence of chunks
Sources == {"file", "link", "cut"}
Chunks(s) ==
  CASE s = "file" -> <<NarFile>>
    [] s = "link" -> <<NarLink>>
    [] s = "cut" -> <<Front(NarFile)>>

\* the chunks a reader that consumed `need` bytes has pulled from the stream
RECURSIVE Pulled(_, _)
Pulled(chunks, need) ==
  IF need <= 0 \/ chunks = <<>> THEN <<>>
  ELSE Head(chunks) \o Pulled(Tail(chunks), need - Len(Head(chunks)))

\* Store::parse_store_path of a printed path
parse_store_path(t) == t[2]

\* the ValidPaths row with a path, if there is one
RowOf(rows, sp) == CHOOSE r \in rows : r.path = print_store_path(sp)

\* Store::is_valid_path: get_path_info finds a row
is_valid_path(rows, sp) == \E r \in rows : r.path = print_store_path(sp)

\* ValidPaths.path is UNIQUE: an insert of a path that has a row fails
PathTaken(rows, path) == \E r \in rows : r.path = path

\* ValidPaths.id is an INTEGER PRIMARY KEY: the largest id in use plus one
NextRowId(rows) ==
  IF rows = {} THEN 1 ELSE (CHOOSE n \in {r.id : r \in rows} : \A r \in rows : r.id <= n) + 1

\* one execution of REGISTER_VALID_PATHS inside the transaction, h being the
\* text of the hash: the parameters are computed first (duration_since fails
\* for a time before the epoch), then the statement runs
ExecuteRegister(rows, vpi, h) ==
  IF h.err # "" THEN [err |-> h.err, rows |-> rows]
  ELSE IF vpi.registration_time < 0 THEN [err |-> "SystemTime", rows |-> rows]
  ELSE IF PathTaken(rows, print_store_path(vpi.store_path))
    THEN [err |-> "Sqlite", rows |-> rows]
  ELSE [err |-> "",
        rows |-> rows \cup {[id |-> NextRowId(rows),
                             path |-> print_store_path(vpi.store_path),
                             hash |-> h.val,
                             registrationTime |-> vpi.registration_time,
                             narSize |-> unwrap_or_default(vpi.nar_size),
                             ultimate |-> vpi.ultimate]}]

RegisterRow(rows, vpi) ==
  ExecuteRegister(rows, vpi, encode_with_type(vpi.nar_hash, "Base16"))

\* the loop of insert_valid_paths over the infos, left at the first error;
\* r is the outcome of the first info
RECURSIVE RegisterAll(_, _)
RegisterRest(infos, r) == IF r.err # "" THEN r ELSE RegisterAll(r.rows, Tail(infos))

RegisterAll(rows, infos) ==
  IF infos = <<>> THEN [err |-> "", rows |-> rows]
  ELSE RegisterRest(infos, RegisterRow(rows, Head(infos)))

\* the end of the call when the rows written before an error stay in the table
Keep(rows, r) == [ok |-> r.err = "", err |-> r.err, rows |-> r.rows]

insert_valid_pathsNoRollback(rows, infos) == Keep(rows, RegisterAll(rows, infos))

\* the end of the call: commit, or the drop of the transaction, which rolls
\* it back to the rows it started with
Commit(rows, r) ==
  IF r.err # "" THEN [ok |-> FALSE, err |-> r.err, rows |-> rows]
  ELSE [ok |-> TRUE, err |-> "", rows |-> r.rows]

\* Db::insert_valid_paths
insert_valid_paths(rows, infos) == Commit(rows, RegisterAll(rows, infos))

\* Db::get_path_info: the row of the path with its hash decoded, and the
\* paths that Refs joins to its id
get_path_info(rows, reftab, sp) ==
  IF ~is_valid_path(rows, sp) THEN [err |-> "", some |-> FALSE, val |-> <<>>]
  ELSE LET r == RowOf(rows, sp)
           d == decode(r.hash)
       IN IF d.err # "" THEN [err |-> d.err, some |-> FALSE, val |-> <<>>]
          ELSE [err |-> "", some |-> TRUE,
                val |-> [id |-> r.id, store_path |-> sp, nar_hash |-> d.hash,
                         references |-> {parse_store_path(q.path) :
                                           q \in {q \in rows : <<r.id, q.id>> \in reftab}},
                         registration_time |-> r.registrationTime,
                         nar_size |-> Some(r.narSize), ultimate |-> r.ultimate]]

\* Db::get_referrers: the paths of the rows that Refs joins to the id of sp
get_referrers(rows, reftab, sp) ==
  {parse_store_path(q.path) :
     q \in {q \in rows : \E r \in rows : /\ r.path = print_store_path(sp)
                                         /\ <<q.id, r.id>> \in reftab}}

\* PartialEq of path infos: the path, the hash and the references
SameInfo(a, b) ==
  /\ a.store_path = b.store_path
  /\ a.nar_hash = b.nar_hash
  /\ a.references = b.references

\* fs::remove_file on a real path: removes a file or a symlink, fails on a
\* directory and on a missing path (the callers ignore the failure)
remove_file(t) ==
  IF <<>> \in DOMAIN t /\ t[<<>>].type # "directory" THEN NoTree ELSE t

\* dropping a PathLocks value closes its files, which releases their locks
Release(p) == [s \in StorePaths |-> [lockFile[s] EXCEPT !.holder = @ \ {p}]]

\* the operation of p returns r
Return(p, r) ==
  /\ pc' = [pc EXCEPT ![p] = "done"]
  /\ result' = [result EXCEPT ![p] = r]
  /\ lockFile' = Release(p)

Goto(p, l) ==
  /\ pc' = [pc EXCEPT ![p] = l]
  /\ UNCHANGED <<result, lockFile>>

Touch(p) == hist' = [hist EXCEPT ![p].touched = TRUE]

inputs == <<info, source, hostfile, algo>>

\* process q is inside an operation
Running(q) == pc[q] \notin {"idle", "done", "panicked"}

\* a caller starts operation o in process p
Call(p, o) ==
  /\ pc[p] \in {"idle", "done"}
  /\ calls < MaxCalls
  /\ calls' = calls + 1
  /\ op' = [op EXCEPT ![p] = o]
  /\ pc' = [pc EXCEPT ![p] = IF o = "add_path" THEN "ap_hash" ELSE "tr_gc"]
  /\ result' = [result EXCEPT ![p] = "none"]
  /\ local' = [local EXCEPT ![p] = [dest |-> info.store_path,
                                    hash |-> hash_bytes(<<>>, "sha256"), len |-> 0]]
  /\ hist' = [hist EXCEPT ![p] = [rooted |-> FALSE, touched |-> FALSE, verified |-> FALSE,
                                  beforeFs |-> realfs, beforeRows |-> catalog,
                                  prevOp |-> op[p], prevResult |-> result[p],
                                  overlap |-> \E q \in Procs \ {p} : Running(q)]]
  /\ UNCHANGED <<inputs, gcLock, trFile, lockFile, realfs, canon, catalog>>
  /\ UNCHANGED <<avars, lvars, dvars, cvars, pvars, nvars, fvars, hvars, kvars, qvars>>

(***************************************************************************)
(* add_temp_root and open_gc_lock.                                         *)
(***************************************************************************)
\* add_temp_root as a caller that drops its error would see it: when the GC
\* lock cannot be opened the operation goes on without a temp root
TrOpenGcErrorDropped(p) ==
  /\ pc[p] = "tr_gc"
  /\ IF gcLock.exists
       THEN /\ Goto(p, IF op[p] = "add_nar" THEN "an_valid1"
                       ELSE IF op[p] = "add_path" THEN "ap_valid" ELSE "done")
            /\ UNCHANGED gcLock
       ELSE /\ gcLock' = [exists |-> TRUE, holders |-> gcLock.holders \cup {p}]
            /\ Goto(p, "tr_create")
  /\ UNCHANGED <<inputs, trFile, realfs, canon, catalog, op, calls, local, hist>>
  /\ UNCHANGED <<avars, lvars, dvars, cvars, pvars, nvars, fvars, hvars, kvars, qvars>>

\* open_gc_lock(Read): gc.lock is opened with create_new, which fails when
\* the file exists; then the shared lock, which no process of the model
\* ever holds exclusively
TrOpenGc(p) ==
  /\ pc[p] = "tr_gc"
  /\ IF gcLock.exists
       THEN /\ Return(p, "GcLock")
            /\ UNCHANGED gcLock
       ELSE /\ gcLock' = [exists |-> TRUE, holders |-> gcLock.holders \cup {p}]
            /\ Goto(p, "tr_create")
  /\ UNCHANGED <<inputs, trFile, realfs, canon, catalog, op, calls, local, hist>>
  /\ UNCHANGED <<avars, lvars, dvars, cvars, pvars, nvars, fvars, hvars, kvars, qvars>>

\* remove the old temp-roots file of this pid, create it anew (create_new),
\* drop the GC lock
TrCreate(p) ==
  /\ pc[p] = "tr_create"
  /\ trFile' = [trFile EXCEPT ![p] = [exists |-> TRUE, content |-> <<>>, lock |-> "none"]]
  /\ gcLock' = [gcLock EXCEPT !.holders = @ \ {p}]
  /\ Goto(p, "tr_lock")
  /\ UNCHANGED <<inputs, realfs, canon, catalog, op, calls, local, hist>>
  /\ UNCHANGED <<avars, lvars, dvars, cvars, pvars, nvars, fvars, hvars, kvars, qvars>>

\* the shared lock on the temp-roots file and the length check that ends
\* the loop; a file that is not empty is dropped and the loop starts over
TrLockRead(p) ==
  /\ pc[p] = "tr_lock"
  /\ IF Len(trFile[p].content) = 0
       THEN /\ trFile' = [trFile EXCEPT ![p].lock = "read"]
            /\ Goto(p, "tr_write")
       ELSE /\ trFile' = [trFile EXCEPT ![p].lock = "none"]
            /\ Goto(p, "tr_gc")
  /\ UNCHANGED <<inputs, gcLock, realfs, canon, catalog, op, calls, local, hist>>
  /\ UNCHANGED <<avars, lvars, dvars, cvars, pvars, nvars, fvars, hvars, kvars, qvars>>

\* the exclusive lock, the write of the path, the shared lock again, and the
\* return of add_temp_root, which drops temp_file and with it the lock
TrWrite(p) ==
  /\ pc[p] = "tr_write"
  /\ trFile' = [trFile EXCEPT ![p].content = Append(@, print_store_path(local[p].dest)),
                              ![p].lock = "none"]
  /\ hist' = [hist EXCEPT ![p].rooted = TRUE]
  /\ IF op[p] = "add_nar" THEN Goto(p, "an_valid1")
     ELSE IF op[p] = "add_path" THEN Goto(p, "ap_valid")
     ELSE Return(p, "Ok")
  /\ UNCHANGED <<inputs, gcLock, realfs, canon, catalog, op, calls, local>>
  /\ UNCHANGED <<avars, lvars, dvars, cvars, pvars, nvars, fvars, hvars, kvars, qvars>>

(***************************************************************************)
(* add_nar_to_store.                                                       *)
(***************************************************************************)
\* the first validity check
AnValid1(p) ==
  /\ pc[p] = "an_valid1"
  /\ IF is_valid_path(catalog, local[p].dest) THEN Return(p, "Ok") ELSE Goto(p, "an_lock")
  /\ UNCHANGED <<inputs, gcLock, trFile, realfs, canon, catalog, op, calls, local, hist>>
  /\ UNCHANGED <<avars, lvars, dvars, cvars, pvars, nvars, fvars, hvars, kvars, qvars>>

\* PathLocks::lock([real_path], wait = false): create the lock file, try the
\* exclusive lock; when contended, unlock and return false, which
\* add_nar_to_store does not look at; a lock file that is not empty is stale
\* and the loop starts over
AnLock(p) ==
  /\ pc[p] = "an_lock"
  /\ LET d == local[p].dest
         created == [lockFile EXCEPT ![d].exists = TRUE, ![d].size = 0]
     IN IF created[d].holder # {}
          THEN /\ pc' = [pc EXCEPT ![p] = "an_valid2"]
               /\ lockFile' = [s \in StorePaths |-> [created[s] EXCEPT !.holder = @ \ {p}]]
        ELSE IF created[d].size # 0
          THEN /\ pc' = pc
               /\ lockFile' = created
        ELSE /\ pc' = [pc EXCEPT ![p] = "an_valid2"]
             /\ lockFile' = [created EXCEPT ![d].holder = {p}]
  /\ UNCHANGED <<inputs, gcLock, trFile, realfs, canon, catalog, op, calls, result, local, hist>>
  /\ UNCHANGED <<avars, lvars, dvars, cvars, pvars, nvars, fvars, hvars, kvars, qvars>>

\* the validity check under the lock
AnValid2(p) ==
  /\ pc[p] = "an_valid2"
  /\ IF is_valid_path(catalog, local[p].dest) THEN Return(p, "Ok") ELSE Goto(p, "an_remove")
  /\ UNCHANGED <<inputs, gcLock, trFile, realfs, canon, catalog, op, calls, local, hist>>
  /\ UNCHANGED <<avars, lvars, dvars, cvars, pvars, nvars, fvars, hvars, kvars, qvars>>

\* let _ = fs::remove_file(&real_path)
AnRemove(p) ==
  /\ pc[p] = "an_remove"
  /\ realfs' = [realfs EXCEPT ![local[p].dest] = remove_file(@)]
  /\ Touch(p)
  /\ Goto(p, "an_restore")
  /\ UNCHANGED <<inputs, gcLock, trFile, canon, catalog, op, calls, local>>
  /\ UNCHANGED <<avars, lvars, dvars, cvars, pvars, nvars, fvars, hvars, kvars, qvars>>

\* restore_into(real_path, source teed into the SHA-256 context), then
\* hash_sink.finish()
AnRestore(p) ==
  /\ pc[p] = "an_restore"
  /\ LET d == local[p].dest
         r == restore_into(realfs[d], Concat(Chunks(source)))
         seen == Pulled(Chunks(source), r.pos - 1)
     IN /\ realfs' = [realfs EXCEPT ![d] = r.fs]
        /\ canon' = [canon EXCEPT ![d] = FALSE]
        /\ IF r.err = "Panic"
             THEN /\ pc' = [pc EXCEPT ![p] = "panicked"]
                  /\ result' = [result EXCEPT ![p] = "Panic"]
                  /\ lockFile' = Release(p)
                  /\ UNCHANGED local
           ELSE IF r.err # ""
             THEN Return(p, r.err) /\ UNCHANGED local
           ELSE /\ local' = [local EXCEPT ![p].hash = hash_bytes(seen, "sha256"),
                                          ![p].len = Len(seen)]
                /\ Goto(p, "an_verify")
  /\ Touch(p)
  /\ UNCHANGED <<inputs, gcLock, trFile, catalog, op, calls>>
  /\ UNCHANGED <<avars, lvars, dvars, cvars, pvars, nvars, fvars, hvars, kvars, qvars>>

\* the comparison of the digest and of the byte count with the info
AnVerify(p) ==
  /\ pc[p] = "an_verify"
  /\ IF local[p].hash # info.nar_hash THEN Return(p, "NarHashMismatch")
     ELSE IF local[p].len # unwrap_or_default(info.nar_size) THEN Return(p, "NarSizeMismatch")
     ELSE Goto(p, "an_canon")
  /\ hist' = [hist EXCEPT ![p].verified = TRUE]
  /\ UNCHANGED <<inputs, gcLock, trFile, realfs, canon, catalog, op, calls, local>>
  /\ UNCHANGED <<avars, lvars, dvars, cvars, pvars, nvars, fvars, hvars, kvars, qvars>>

\* canonicalise_path_metadata(&real_path, None)
AnCanon(p) ==
  /\ pc[p] = "an_canon"
  /\ canon' = [canon EXCEPT ![local[p].dest] = TRUE]
  /\ Touch(p)
  /\ Goto(p, "an_insert")
  /\ UNCHANGED <<inputs, gcLock, trFile, realfs, catalog, op, calls, local>>
  /\ UNCHANGED <<avars, lvars, dvars, cvars, pvars, nvars, fvars, hvars, kvars, qvars>>

\* insert_valid_paths(Some(info)) and the return, which drops the locks
AnInsert(p) ==
  /\ pc[p] = "an_insert"
  /\ LET i == insert_valid_paths(catalog, <<info>>)
     IN /\ catalog' = i.rows
        /\ Return(p, IF i.ok THEN "Ok" ELSE "Db")
  /\ Touch(p)
  /\ UNCHANGED <<inputs, gcLock, trFile, realfs, canon, op, calls, local>>
  /\ UNCHANGED <<avars, lvars, dvars, cvars, pvars, nvars, fvars, hvars, kvars, qvars>>

(***************************************************************************)
(* add_path_to_store.                                                      *)
(***************************************************************************)
\* canonicalize, metadata, hash_file (which fails on a directory) and
\* make_fixed_output_path
ApHash(p) ==
  /\ pc[p] = "ap_hash"
  /\ IF hostfile.type = "directory"
       THEN Return(p, "Io") /\ UNCHANGED local
       ELSE /\ local' = [local EXCEPT ![p].dest = fixed_dest(hostfile.contents, algo)]
            /\ Goto(p, "tr_gc")
  /\ UNCHANGED <<inputs, gcLock, trFile, realfs, canon, catalog, op, calls, hist>>
  /\ UNCHANGED <<avars, lvars, dvars, cvars, pvars, nvars, fvars, hvars, kvars, qvars>>

ApValid(p) ==
  /\ pc[p] = "ap_valid"
  /\ IF is_valid_path(catalog, local[p].dest) THEN Return(p, "Ok") ELSE Goto(p, "ap_remove")
  /\ UNCHANGED <<inputs, gcLock, trFile, realfs, canon, catalog, op, calls, local, hist>>
  /\ UNCHANGED <<avars, lvars, dvars, cvars, pvars, nvars, fvars, hvars, kvars, qvars>>

\* let _ = fs::remove_file(&real_path)
ApRemove(p) ==
  /\ pc[p] = "ap_remove"
  /\ realfs' = [realfs EXCEPT ![local[p].dest] = remove_file(@)]
  /\ Touch(p)
  /\ Goto(p, "ap_copy")
  /\ UNCHANGED <<inputs, gcLock, trFile, canon, catalog, op, calls, local>>
  /\ UNCHANGED <<avars, lvars, dvars, cvars, pvars, nvars, fvars, hvars, kvars, qvars>>

\* fs::copy of the host file to the real path (a directory is
\* unimplemented!()); the copy fails when a directory lies at the real path
ApCopy(p) ==
  /\ pc[p] = "ap_copy"
  /\ LET d == local[p].dest
     IN IF hostfile.type = "directory"
          THEN /\ pc' = [pc EXCEPT ![p] = "panicked"]
               /\ result' = [result EXCEPT ![p] = "Panic"]
               /\ lockFile' = Release(p)
               /\ UNCHANGED <<realfs, canon>>
        ELSE IF <<>> \in DOMAIN realfs[d]
          THEN Return(p, "Io") /\ UNCHANGED <<realfs, canon>>
        ELSE /\ realfs' = [realfs EXCEPT ![d] = (<<>> :> Reg(hostfile.exec, hostfile.contents))]
             /\ canon' = [canon EXCEPT ![d] = FALSE]
             /\ Goto(p, "ap_canon")
  /\ Touch(p)
  /\ UNCHANGED <<inputs, gcLock, trFile, catalog, op, calls, local>>
  /\ UNCHANGED <<avars, lvars, dvars, cvars, pvars, nvars, fvars, hvars, kvars, qvars>>

ApCanon(p) ==
  /\ pc[p] = "ap_canon"
  /\ canon' = [canon EXCEPT ![local[p].dest] = TRUE]
  /\ Touch(p)
  /\ Goto(p, "ap_dump")
  /\ UNCHANGED <<inputs, gcLock, trFile, realfs, catalog, op, calls, local>>
  /\ UNCHANGED <<avars, lvars, dvars, cvars, pvars, nvars, fvars, hvars, kvars, qvars>>

\* dump_path(&real_path) into a hash sink of the caller's algorithm
ApDump(p) ==
  /\ pc[p] = "ap_dump"
  /\ LET bytes == dump_regular(realfs[local[p].dest][<<>>])
     IN local' = [local EXCEPT ![p].hash = hash_bytes(bytes, algo), ![p].len = Len(bytes)]
  /\ Goto(p, "ap_insert")
  /\ UNCHANGED <<inputs, gcLock, trFile, realfs, canon, catalog, op, calls, hist>>
  /\ UNCHANGED <<avars, lvars, dvars, cvars, pvars, nvars, fvars, hvars, kvars, qvars>>

\* the ValidPathInfo of the new path and insert_valid_paths(Some(&vpi))
ApInsert(p) ==
  /\ pc[p] = "ap_insert"
  /\ LET vpi == [store_path |-> local[p].dest, nar_hash |-> local[p].hash,
                 references |-> {}, registration_time |-> 1,
                 nar_size |-> Some(local[p].len), ultimate |-> TRUE]
         i == insert_valid_paths(catalog, <<vpi>>)
     IN /\ catalog' = i.rows
        /\ Return(p, IF i.ok THEN "Ok" ELSE "Db")
  /\ Touch(p)
  /\ UNCHANGED <<inputs, gcLock, trFile, realfs, canon, op, calls, local>>
  /\ UNCHANGED <<avars, lvars, dvars, cvars, pvars, nvars, fvars, hvars, kvars, qvars>>

(***************************************************************************)
(* PathLocks (src/src/store/local/lock.rs), as a value each process owns   *)
(* and locks lists of paths with.                                          *)
(***************************************************************************)
Dot == 46
DotLock == <<46, 108, 111, 99, 107>>

\* the paths callers lock: "a" and "a.b" (last components)
PathA == <<97>>
PathAB == <<97, 46, 98>>
LockPaths == {PathA, PathAB}

\* the position of the last dot of a file name, 0 when there is none
LastDot(n) ==
  LET ds == {i \in 1..Len(n) : n[i] = Dot}
  IN IF ds = {} THEN 0 ELSE CHOOSE i \in ds : \A j \in ds : j <= i

\* Path::extension and Path::file_stem: a name without a dot, or whose only
\* dot is its first byte, has no extension and is its own stem
extension(n) ==
  IF LastDot(n) <= 1 THEN [some |-> FALSE, val |-> <<>>]
  ELSE [some |-> TRUE, val |-> SubSeq(n, LastDot(n) + 1, Len(n))]

file_stem(n) == IF LastDot(n) <= 1 THEN n ELSE SubSeq(n, 1, LastDot(n) - 1)

\* Path::with_extension: the stem, and "." and the extension when the
\* extension is not empty
with_extension(n, e) == IF e = <<>> THEN file_stem(n) ELSE file_stem(n) \o <<Dot>> \o e

\* the lock file PathLocks::lock opens for a path
lock_path(n) ==
  IF extension(n).some THEN with_extension(n, extension(n).val \o DotLock)
  ELSE with_extension(n, DotLock)

LockFiles == {lock_path(n) : n \in LockPaths}

\* the lists of paths a caller passes, a path named twice included
PathLists ==
  {<<a>> : a \in LockPaths} \cup {<<a, b>> : a \in LockPaths, b \in LockPaths}

\* closing the files of a PathLocks value, and the file a call has open,
\* releases the locks the process holds
DropFiles(p) == [f \in LockFiles |-> [lfiles[f] EXCEPT !.holder = @ \ {p}]]

\* PathLocks::lock is called; it asserts that the value holds nothing
LkCall(p) ==
  /\ plPc[p] = "idle"
  /\ plCalls < MaxCalls
  /\ plCalls' = plCalls + 1
  /\ \E ps \in PathLists, w \in BOOLEAN :
       plArgs' = [plArgs EXCEPT ![p] = [paths |-> ps, wait |-> w]]
  /\ plRet' = [plRet EXCEPT ![p] = "none"]
  /\ plIdx' = [plIdx EXCEPT ![p] = 1]
  /\ IF plHeld[p] # <<>>
       THEN /\ plPc' = [plPc EXCEPT ![p] = "panicked"]
            /\ plHeld' = [plHeld EXCEPT ![p] = <<>>]
            /\ lfiles' = DropFiles(p)
       ELSE /\ plPc' = [plPc EXCEPT ![p] = "open"]
            /\ UNCHANGED <<plHeld, lfiles>>
  /\ UNCHANGED <<avars, svars, dvars, cvars, pvars, nvars, fvars, hvars, kvars, qvars>>

\* PathLocks::lock without the self.unlock() of the contended branch: the
\* locks acquired earlier in the call stay held when it returns false
LkCreateNoUnlock(p) ==
  /\ plPc[p] = "open"
  /\ LET f == lock_path(plArgs[p].paths[plIdx[p]])
         created == [lfiles EXCEPT ![f].exists = TRUE, ![f].size = 0]
     IN IF created[f].holder = {}
          THEN /\ lfiles' = [created EXCEPT ![f].holder = {p}]
               /\ plPc' = [plPc EXCEPT ![p] = "meta"]
               /\ UNCHANGED <<plHeld, plRet>>
        ELSE IF plArgs[p].wait
          THEN /\ lfiles' = created
               /\ plPc' = [plPc EXCEPT ![p] = "parked"]
               /\ UNCHANGED <<plHeld, plRet>>
        ELSE /\ lfiles' = created
             /\ plRet' = [plRet EXCEPT ![p] = "false"]
             /\ plPc' = [plPc EXCEPT ![p] = "idle"]
             /\ UNCHANGED plHeld
  /\ UNCHANGED <<plArgs, plIdx, plCalls>>
  /\ UNCHANGED <<avars, svars, dvars, cvars, pvars, nvars, fvars, hvars, kvars, qvars>>

\* File::create of the lock file of the current path, try_lock(Write) and,
\* when contended in wait mode, the first poll of the FileLock future; when
\* contended otherwise, self.unlock() and return false
LkCreate(p) ==
  /\ plPc[p] = "open"
  /\ LET f == lock_path(plArgs[p].paths[plIdx[p]])
         created == [lfiles EXCEPT ![f].exists = TRUE, ![f].size = 0]
     IN IF created[f].holder = {}
          THEN /\ lfiles' = [created EXCEPT ![f].holder = {p}]
               /\ plPc' = [plPc EXCEPT ![p] = "meta"]
               /\ UNCHANGED <<plHeld, plRet>>
        ELSE IF plArgs[p].wait
          THEN /\ lfiles' = created
               /\ plPc' = [plPc EXCEPT ![p] = "parked"]
               /\ UNCHANGED <<plHeld, plRet>>
        ELSE /\ lfiles' = [g \in LockFiles |-> [created[g] EXCEPT !.holder = @ \ {p}]]
             /\ plHeld' = [plHeld EXCEPT ![p] = <<>>]
             /\ plRet' = [plRet EXCEPT ![p] = "false"]
             /\ plPc' = [plPc EXCEPT ![p] = "idle"]
  /\ UNCHANGED <<plArgs, plIdx, plCalls>>
  /\ UNCHANGED <<avars, svars, dvars, cvars, pvars, nvars, fvars, hvars, kvars, qvars>>

\* fs::metadata of the lock file: a file that is not empty is stale, the
\* lock is dropped and the path tried again; otherwise the file is pushed
\* and the next path follows, or the call returns true
LkMeta(p) ==
  /\ plPc[p] = "meta"
  /\ LET f == lock_path(plArgs[p].paths[plIdx[p]])
     IN IF lfiles[f].size # 0
          THEN /\ lfiles' = [lfiles EXCEPT ![f].holder = @ \ {p}, ![f].stale = FALSE]
               /\ plPc' = [plPc EXCEPT ![p] = "open"]
               /\ UNCHANGED <<plHeld, plIdx, plRet>>
        ELSE /\ plHeld' = [plHeld EXCEPT ![p] = Append(@, f)]
             /\ UNCHANGED lfiles
             /\ IF plIdx[p] < Len(plArgs[p].paths)
                  THEN /\ plIdx' = [plIdx EXCEPT ![p] = @ + 1]
                       /\ plPc' = [plPc EXCEPT ![p] = "open"]
                       /\ UNCHANGED plRet
                  ELSE /\ plRet' = [plRet EXCEPT ![p] = "true"]
                       /\ plPc' = [plPc EXCEPT ![p] = "idle"]
                       /\ UNCHANGED plIdx
  /\ UNCHANGED <<plArgs, plCalls>>
  /\ UNCHANGED <<avars, svars, dvars, cvars, pvars, nvars, fvars, hvars, kvars, qvars>>

\* PathLocks::unlock
LkUnlock(p) ==
  /\ plPc[p] = "idle"
  /\ plHeld[p] # <<>>
  /\ plHeld' = [plHeld EXCEPT ![p] = <<>>]
  /\ lfiles' = DropFiles(p)
  /\ plRet' = [plRet EXCEPT ![p] = "none"]
  /\ UNCHANGED <<plArgs, plPc, plIdx, plCalls>>
  /\ UNCHANGED <<avars, svars, dvars, cvars, pvars, nvars, fvars, hvars, kvars, qvars>>

\* no lock file exists
NoLockFiles ==
  [f \in LockFiles |-> [exists |-> FALSE, size |-> 0, holder |-> {}, stale |-> FALSE]]

\* the lock file of PathA was left with the marker of a stale lock, one byte,
\* by a holder that is gone
StaleLockFile ==
  [NoLockFiles EXCEPT ![lock_path(PathA)] =
     [exists |-> TRUE, size |-> 1, holder |-> {}, stale |-> TRUE]]

IdleLockCalls ==
  /\ plArgs = [p \in Procs |-> [paths |-> <<PathA>>, wait |-> FALSE]]
  /\ plPc = [p \in Procs |-> "idle"]
  /\ plIdx = [p \in Procs |-> 1]
  /\ plHeld = [p \in Procs |-> <<>>]
  /\ plRet = [p \in Procs |-> "none"]
  /\ plCalls = 0

IdleLocks == IdleLockCalls /\ lfiles = NoLockFiles

(***************************************************************************)
(* Store paths (src/src/path.rs): a hash of 20 bytes and a name.  A file   *)
(* path is the sequence of its components, a text the sequence of its      *)
(* bytes.                                                                  *)
(***************************************************************************)
HASH_BYTES == 20
HASH_CHARS == 32
MaxNameLen == 211

\* Name::from_str: is_valid_char
is_valid_char(c) ==
  \/ (c >= 65 /\ c <= 90) \/ (c >= 97 /\ c <= 122)
  \/ (c >= 48 /\ c <= 57)
  \/ c \in {43, 45, 46, 95, 63, 61}

\* Name::from_str
name_from_str(s) ==
  IF s = <<>> THEN [err |-> "InvalidStorePathName", val |-> <<>>]
  ELSE IF Len(s) > MaxNameLen THEN [err |-> "InvalidStorePathName", val |-> <<>>]
  ELSE IF s[1] = Dot \/ \E i \in 1..Len(s) : ~is_valid_char(s[i])
    THEN [err |-> "InvalidStorePathName", val |-> <<>>]
  ELSE [err |-> "", val |-> s]

NoPath == [hash |-> <<>>, name |-> <<>>]

\* path::Hash::decode: the text has HASH_CHARS characters and decodes to
\* HASH_BYTES bytes, or the call panics
DecodedHash(r) ==
  IF r.err # "" THEN [err |-> r.err, val |-> <<>>]
  ELSE IF Len(r.val) # HASH_BYTES THEN [err |-> "Panic", val |-> <<>>]
  ELSE [err |-> "", val |-> r.val]

path_hash_decode(s) ==
  IF Len(s) # HASH_CHARS THEN [err |-> "Panic", val |-> <<>>]
  ELSE DecodedHash(base32_decode(s))

\* Display for path::Hash: encode_into a buffer of HASH_CHARS characters
path_hash_to_string(h) == encode_into(h, HASH_CHARS)

\* Display for Path: "{}-{}"
Joined(h, name) ==
  IF h.err # "" THEN [err |-> "Panic", val |-> <<>>]
  ELSE [err |-> "", val |-> h.val \o <<Dash>> \o name]

path_to_string(p) == Joined(path_hash_to_string(p.hash), p.name)

\* the end of from_parts and of from_base_name: the hash h and the name n,
\* each parsed or an error; the hash comes first
PathOf(h, n) ==
  IF h.err # "" THEN [err |-> h.err, val |-> NoPath]
  ELSE IF n.err # "" THEN [err |-> n.err, val |-> NoPath]
  ELSE [err |-> "", val |-> [hash |-> h.val, name |-> n.val]]

\* Path::from_parts
from_parts(bytes, name) ==
  PathOf(IF Len(bytes) # HASH_BYTES THEN [err |-> "WrongHashLen", val |-> <<>>]
                                    ELSE [err |-> "", val |-> bytes],
         name_from_str(name))

\* from_base_name when the character after the hash is not looked at
from_base_nameNoDash(base_name) ==
  IF Len(base_name) < HASH_CHARS + 1 THEN [err |-> "InvalidFilepath", val |-> NoPath]
  ELSE PathOf(path_hash_decode(SubSeq(base_name, 1, HASH_CHARS)),
              name_from_str(SubSeq(base_name, HASH_CHARS + 2, Len(base_name))))

\* Path::from_base_name
from_base_name(base_name) ==
  IF Len(base_name) < HASH_CHARS + 1 \/ base_name[HASH_CHARS + 1] # Dash
    THEN [err |-> "InvalidFilepath", val |-> NoPath]
  ELSE PathOf(path_hash_decode(SubSeq(base_name, 1, HASH_CHARS)),
              name_from_str(SubSeq(base_name, HASH_CHARS + 2, Len(base_name))))

DotDot == <<46, 46>>

\* std::path::Path::parent: the path without its last component
parent(p) == IF p = <<>> THEN [some |-> FALSE, val |-> <<>>] ELSE [some |-> TRUE, val |-> Front(p)]

\* std::path::Path::file_name: the last component, unless it is ".."
file_name(p) ==
  IF p = <<>> \/ Last(p) = DotDot THEN [some |-> FALSE, val |-> <<>>]
  ELSE [some |-> TRUE, val |-> Last(p)]

\* Path::new
new(p, store_dir) ==
  IF ~parent(p).some \/ parent(p).val # store_dir THEN [err |-> "NotInStore", val |-> NoPath]
  ELSE IF ~file_name(p).some THEN [err |-> "InvalidFilepath", val |-> NoPath]
  ELSE from_base_name(file_name(p).val)

\* Iterator::cmp on two sequences of bytes
RECURSIVE IterCmp(_, _)
IterCmp(s, t) ==
  IF s = <<>> /\ t = <<>> THEN "Equal"
  ELSE IF s = <<>> THEN "Less"
  ELSE IF t = <<>> THEN "Greater"
  ELSE IF Head(s) < Head(t) THEN "Less"
  ELSE IF Head(s) > Head(t) THEN "Greater"
  ELSE IterCmp(Tail(s), Tail(t))

\* cmp of hashes when the bytes are compared from the first one
hash_cmpForward(a, b) == IterCmp(a, b)

\* Ord for path::Hash: the bytes are compared from the last one
hash_cmp(a, b) == IterCmp(Reverse(a), Reverse(b))

Then(first, a, b) == IF first # "Equal" THEN first ELSE IterCmp(a, b)

\* the derived Ord for Path: the hash, then the name
path_cmp(a, b) == Then(hash_cmp(a.hash, b.hash), a.name, b.name)

\* Hash::encode
encode(h, encoding) ==
  IF encoding = "SRI" THEN encode_with_type(h, encoding) ELSE encode_impl(h, encoding)

\* Hash::hash_str
hash_str(data, ty) == hash_bytes(data, ty)

\* Store::print_store_path: "{}/{}" of the store directory and the path
store_print_store_path(store_dir, p) == display(store_dir) \o <<Slash>> \o path_to_string(p).val

\* the end of make_store_path: the digest of ident, truncated, with the name
StorePathOf(t, name) ==
  IF t.err # "" THEN [err |-> t.err, val |-> NoPath] ELSE from_parts(as_bytes(t.val), name)

\* the text make_store_path hashes, e the base-16 text of the hash
Ident(path_type, e, store_dir, name) ==
  path_type \o <<Colon>> \o e \o <<Colon>> \o display(store_dir) \o <<Colon>> \o name

\* Store::make_store_path
make_store_path(store_dir, path_type, hash, name) ==
  IF encode(hash, "Base16").err # "" THEN [err |-> "Panic", val |-> NoPath]
  ELSE StorePathOf(truncate(hash_bytes(Ident(path_type, encode(hash, "Base16").val,
                                                store_dir, name), "sha256"), HASH_BYTES),
                   name)

\* Store::make_type
RECURSIVE make_type(_, _, _, _)
make_type(store_dir, s, references, has_self_reference) ==
  IF references # <<>>
    THEN make_type(store_dir, s \o <<Colon>> \o store_print_store_path(store_dir, Head(references)),
                   Tail(references), has_self_reference)
  ELSE IF has_self_reference THEN s \o <<58, 115, 101, 108, 102>>
  ELSE s

SourceType == <<115, 111, 117, 114, 99, 101>>
OutputOut == <<111, 117, 116, 112, 117, 116, 58, 111, 117, 116>>
FixedOut == <<102, 105, 120, 101, 100, 58, 111, 117, 116, 58>>
RecursiveMark == <<114, 58>>

NoCall == [path_type |-> <<>>, hash |-> NoHash]

\* the text make_fixed_output_path hashes in its second branch, e the
\* base-16 text of the hash
FixedText(recursive, e) ==
  FixedOut \o (IF recursive THEN RecursiveMark ELSE <<>>) \o e \o <<Colon>>

\* the arguments make_fixed_output_path passes to make_store_path when the
\* "source" scheme is used for every recursive hash
FixedOutputCallAnyType(store_dir, recursive, hash, references, has_self_reference) ==
  IF recursive
    THEN [err |-> "", path_type |-> make_type(store_dir, SourceType, references, has_self_reference),
          hash |-> hash]
  ELSE IF references # <<>> THEN [err |-> "Panic", path_type |-> <<>>, hash |-> NoHash]
  ELSE [err |-> "", path_type |-> OutputOut,
        hash |-> hash_str(FixedText(recursive, encode(hash, "Base16").val), "sha256")]

\* the arguments make_fixed_output_path passes to make_store_path, or the
\* failed assertion
FixedOutputCall(store_dir, recursive, hash, references, has_self_reference) ==
  IF hash.ty = "sha256" /\ recursive
    THEN [err |-> "", path_type |-> make_type(store_dir, SourceType, references, has_self_reference),
          hash |-> hash]
  ELSE IF references # <<>> THEN [err |-> "Panic", path_type |-> <<>>, hash |-> NoHash]
  ELSE [err |-> "", path_type |-> OutputOut,
        hash |-> hash_str(FixedText(recursive, encode(hash, "Base16").val), "sha256")]

Made(store_dir, c, name) ==
  IF c.err # "" THEN [err |-> c.err, val |-> NoPath]
  ELSE make_store_path(store_dir, c.path_type, c.hash, name)

\* Store::make_fixed_output_path
make_fixed_output_path(store_dir, recursive, hash, name, references, has_self_reference) ==
  Made(store_dir, FixedOutputCall(store_dir, recursive, hash, references, has_self_reference), name)

(***************************************************************************)
(* The catalog (src/src/store/local/db.rs).  Db::insert_valid_paths takes  *)
(* &mut self, so a catalog call is one step.                               *)
(***************************************************************************)
\* the infos a caller registers: a path of the store, the paths it refers to
\* (none, itself or another path) and a registration time in seconds after
\* the epoch, or before it
DbInfos ==
  {[store_path |-> sp, nar_hash |-> hash_bytes(Hi, "sha256"), nar_size |-> None,
    references |-> rs, registration_time |-> 1, ultimate |-> FALSE] :
     sp \in StorePaths, rs \in {{}, {fixed_dest(Hi, "sha256")}}}
  \cup {[store_path |-> fixed_dest(Hi, "sha1"), nar_hash |-> hash_bytes(Hi, "sha256"),
         nar_size |-> None, references |-> {}, registration_time |-> 0 - 1,
         ultimate |-> FALSE]}

DbInfoLists == {<<i>> : i \in DbInfos} \cup {<<i, j>> : i \in DbInfos, j \in DbInfos}

NoQuery ==
  [op |-> "none", infos |-> <<>>, path |-> <<>>, before |-> {}, ok |-> TRUE,
   info |-> [err |-> "", some |-> FALSE, val |-> <<>>], paths |-> {}]

\* insert_valid_paths(store, infos)
DbInsert ==
  /\ dbCalls < MaxCalls
  /\ dbCalls' = dbCalls + 1
  /\ \E infos \in DbInfoLists :
       LET i == insert_valid_paths(catalog, infos)
       IN /\ catalog' = i.rows
          /\ registered' =
               IF i.ok
                 THEN registered \cup
                        {v \in {infos[k] : k \in 1..Len(infos)} :
                           \A r \in v.references : is_valid_path(i.rows, r)}
                 ELSE registered
          /\ dbq' = [NoQuery EXCEPT !.op = "insert_valid_paths", !.infos = infos,
                                    !.before = catalog, !.ok = i.ok]
  /\ UNCHANGED <<refs, inputs, gcLock, trFile, lockFile, realfs, canon, pc, op, calls,
                 result, local, hist>>
  /\ UNCHANGED <<avars, lvars, cvars, pvars, nvars, fvars, hvars, kvars, qvars>>

\* get_path_info(store, path)
DbGetPathInfo ==
  /\ dbCalls < MaxCalls
  /\ dbCalls' = dbCalls + 1
  /\ \E sp \in StorePaths :
       dbq' = [NoQuery EXCEPT !.op = "get_path_info", !.path = sp, !.before = catalog,
                              !.info = get_path_info(catalog, refs, sp)]
  /\ UNCHANGED <<refs, registered>>
  /\ UNCHANGED <<avars, svars, lvars, cvars, pvars, nvars, fvars, hvars, kvars, qvars>>

\* get_referrers(store, path)
DbGetReferrers ==
  /\ dbCalls < MaxCalls
  /\ dbCalls' = dbCalls + 1
  /\ \E sp \in StorePaths :
       dbq' = [NoQuery EXCEPT !.op = "get_referrers", !.path = sp, !.before = catalog,
                              !.paths = get_referrers(catalog, refs, sp)]
  /\ UNCHANGED <<refs, registered>>
  /\ UNCHANGED <<avars, svars, lvars, cvars, pvars, nvars, fvars, hvars, kvars, qvars>>

\* Db::open with create: the schema and no rows
IdleDb ==
  /\ refs = {}
  /\ registered = {}
  /\ dbq = NoQuery
  /\ dbCalls = 0

(***************************************************************************)
(* The encodings applied to inputs: base32 (src/src/base32.rs) on byte     *)
(* strings and on texts, Hash::encode_with_type and Hash::decode           *)
(* (src/src/hash.rs) on hashes.                                            *)
(***************************************************************************)
RECURSIVE SeqsUpTo(_, _)
SeqsUpTo(S, n) ==
  IF n = 0 THEN {<<>>}
  ELSE LET shorter == SeqsUpTo(S, n - 1)
       IN shorter \cup {Append(q, x) : q \in shorter, x \in S}

\* short byte strings
ByteStrings == SeqsUpTo({0, 1, 128, 255}, MaxLen)

\* short texts: the characters 0, 1, 2 and z of the alphabet, and o, which is
\* not in it
Texts == SeqsUpTo({48, 49, 50, 122, 111}, MaxLen)

\* hashes of every type: as_bytes() is of the size of the type
Hashes ==
  {[ty |-> ty, data |-> <<x>> \o Zeros(size(ty) - 2) \o <<y>>] :
     ty \in HashTypes, x \in {0, 1, 31, 224, 255}, y \in {0, 128, 255}}

NoResult == [err |-> "", val |-> <<>>]

\* base32::encode of plain bytes or of the bytes of a hash
B32Encode ==
  /\ cop = "none"
  /\ ctext' = base32_encode(as_bytes(cin)).val
  /\ cres' = [err |-> base32_encode(as_bytes(cin)).err, val |-> <<>>]
  /\ cenc' = "base32"
  /\ cop' = "encode"
  /\ UNCHANGED <<cin, carg>>
  /\ UNCHANGED <<avars, svars, lvars, dvars, pvars, nvars, fvars, hvars, kvars, qvars>>

\* base32::decode of the text encode gave
B32Decode ==
  /\ cop = "encode" /\ cres.err = ""
  /\ cres' = base32_decode(ctext)
  /\ cop' = "decode"
  /\ UNCHANGED <<cin, cenc, ctext, carg>>
  /\ UNCHANGED <<avars, svars, lvars, dvars, pvars, nvars, fvars, hvars, kvars, qvars>>

\* base32::decode of a text
B32DecodeText ==
  /\ cop = "none"
  /\ \E t \in Texts :
       /\ ctext' = t
       /\ cres' = base32_decode(t)
  /\ cin' = [ty |-> "", data |-> <<>>]
  /\ cenc' = "base32"
  /\ cop' = "decode_text"
  /\ UNCHANGED carg
  /\ UNCHANGED <<avars, svars, lvars, dvars, pvars, nvars, fvars, hvars, kvars, qvars>>

\* Hash::encode_with_type
HashEncode ==
  /\ cop = "none" /\ cin.ty # ""
  /\ \E e \in Encodings :
       /\ cenc' = e
       /\ ctext' = encode_with_type(cin, e).val
       /\ cres' = [err |-> encode_with_type(cin, e).err, val |-> <<>>]
  /\ cop' = "encode_with_type"
  /\ UNCHANGED <<cin, carg>>
  /\ UNCHANGED <<avars, svars, lvars, dvars, pvars, nvars, fvars, hvars, kvars, qvars>>

\* Hash::decode of the text encode_with_type gave
HashDecode ==
  /\ cop = "encode_with_type" /\ cres.err = ""
  /\ cres' = [err |-> decode(ctext).err, val |-> decode(ctext).hash]
  /\ cop' = "hash_decode"
  /\ UNCHANGED <<cin, cenc, ctext, carg>>
  /\ UNCHANGED <<avars, svars, lvars, dvars, pvars, nvars, fvars, hvars, kvars, qvars>>

\* the sizes a hash is truncated to
TruncateSizes == {0, 1, 3, 16, 20, 32, 64}

\* Hash::truncate
HashTruncate ==
  /\ cop = "none" /\ cin.ty # ""
  /\ \E k \in TruncateSizes :
       /\ carg' = k
       /\ cres' = truncate(cin, k)
  /\ cop' = "truncate"
  /\ UNCHANGED <<cin, cenc, ctext>>
  /\ UNCHANGED <<avars, svars, lvars, dvars, pvars, nvars, fvars, hvars, kvars, qvars>>

IdleCodec ==
  /\ cin = [ty |-> "", data |-> <<>>]
  /\ cenc = ""
  /\ ctext = <<>>
  /\ cres = NoResult
  /\ carg = 0
  /\ cop = "none"

(***************************************************************************)
(* Store paths applied to inputs: a path is printed and the text parsed,   *)
(* a file path is parsed and the result printed, two paths are compared,   *)
(* the path of a fixed output is derived.                                  *)
(***************************************************************************)
\* hashes of 20 bytes: the ends vary, and one hash of the tests of path.rs
PathHashes ==
  {<<x>> \o Zeros(HASH_BYTES - 2) \o <<y>> : x, y \in {0, 1, 255}} \cup
  {<<6, 95, 221, 239, 70, 175, 129, 185, 229, 36, 165, 29, 129, 142, 252, 186, 86, 169, 222, 64>>}

PathNames == {<<97>>, <<98>>, <<110, 105, 120, 45, 50, 46, 52>>}

StorePathValues == {[hash |-> h, name |-> n] : h \in PathHashes, n \in PathNames}

StoreDirs == {<<<<110, 105, 120>>, <<115, 116, 111, 114, 101>>>>, <<<<108, 111, 99, 97, 108>>, <<110, 105, 120>>>>}

\* leaves of file paths: texts of store paths, and texts that are too short,
\* lack the dash, hold a character outside the alphabet or an invalid name
Leaves ==
  {<<56, 51, 103, 97, 106, 109, 109, 115, 122, 106, 55, 56, 50, 55, 100, 53, 52, 107, 106, 118, 107, 48, 100, 103, 56, 118, 112, 120, 115, 112, 113, 54, 45, 110, 105, 120, 45, 50, 46, 52>>,
   <<53, 99, 57, 97, 49, 103, 49, 106, 100, 113, 118, 50, 106, 107, 57, 107, 52, 110, 98, 120, 115, 57, 121, 50, 52, 52, 53, 108, 54, 106, 106, 97, 45, 102, 111, 111, 46, 116, 120, 116>>,
   <<122, 122, 122, 122, 122, 122, 122, 122, 122, 122, 122, 122, 122, 122, 122, 122, 122, 122, 122, 122, 122, 122, 122, 122, 122, 122, 122, 122, 122, 122, 122, 122, 45, 97>>,
   <<48, 48, 48, 48, 48, 48, 48, 48, 48, 48, 48, 48, 48, 48, 48, 48, 48, 48, 48, 48, 48, 48, 48, 48, 48, 48, 48, 48, 48, 48, 48, 48, 45, 98, 43, 99>>,
   <<97, 98, 99>>,
   <<48, 48, 48, 48, 48, 48, 48, 48, 48, 48, 48, 48, 48, 48, 48, 48, 48, 48, 48, 48, 48, 48, 48, 48, 48, 48, 48, 48, 48, 48, 48, 48>>,
   <<48, 48, 48, 48, 48, 48, 48, 48, 48, 48, 48, 48, 48, 48, 48, 48, 48, 48, 48, 48, 48, 48, 48, 48, 48, 48, 48, 48, 48, 48, 48, 48, 120>>,
   <<48, 48, 48, 48, 48, 48, 48, 48, 48, 48, 48, 48, 48, 48, 48, 48, 48, 48, 48, 48, 48, 48, 48, 48, 48, 48, 48, 48, 48, 48, 48, 45, 48, 45, 97>>,
   <<101, 48, 48, 48, 48, 48, 48, 48, 48, 48, 48, 48, 48, 48, 48, 48, 48, 48, 48, 48, 48, 48, 48, 48, 48, 48, 48, 48, 48, 48, 48, 48, 45, 97>>,
   <<48, 48, 48, 48, 48, 48, 48, 48, 48, 48, 48, 48, 48, 48, 48, 48, 48, 48, 48, 48, 48, 48, 48, 48, 48, 48, 48, 48, 48, 48, 48, 48, 45>>,
   <<48, 48, 48, 48, 48, 48, 48, 48, 48, 48, 48, 48, 48, 48, 48, 48, 48, 48, 48, 48, 48, 48, 48, 48, 48, 48, 48, 48, 48, 48, 48, 48, 45, 46, 97>>,
   <<48, 48, 48, 48, 48, 48, 48, 48, 48, 48, 48, 48, 48, 48, 48, 48, 48, 48, 48, 48, 48, 48, 48, 48, 48, 48, 48, 48, 48, 48, 48, 48, 45, 97, 32, 98>>,
   <<46, 46>>}

\* file paths: children of the store directory, deeper descendants, children
\* of other directories, the store directory itself and the empty path
FilePaths ==
  {d \o <<l>> : d \in StoreDirs, l \in Leaves} \cup
  {d \o <<<<115, 117, 98>>, l>> : d \in StoreDirs, l \in Leaves} \cup
  {<<l>> : l \in Leaves} \cup StoreDirs \cup {<<>>}

NoArgs == [dir |-> <<>>]

\* to_string of a store path
PathToString ==
  /\ pop = "none"
  /\ \E p \in StorePathValues, d \in StoreDirs :
       /\ pargs' = [dir |-> d, path |-> p]
       /\ ptext' = path_to_string(p)
  /\ pop' = "to_string"
  /\ UNCHANGED <<pres, pcall>>
  /\ UNCHANGED <<avars, svars, lvars, dvars, cvars, nvars, fvars, hvars, kvars, qvars>>

\* parse_store_path of the printed path under the store directory
PathParsePrinted ==
  /\ pop = "to_string"
  /\ ptext.err = ""
  /\ pres' = new(pargs.dir \o <<ptext.val>>, pargs.dir)
  /\ pop' = "parsed"
  /\ UNCHANGED <<pargs, ptext, pcall>>
  /\ UNCHANGED <<avars, svars, lvars, dvars, cvars, nvars, fvars, hvars, kvars, qvars>>

Printed(r) == IF r.err # "" THEN NoResult ELSE path_to_string(r.val)

\* parse_store_path of a file path, and to_string of the path it yields
PathNew ==
  /\ pop = "none"
  /\ \E s \in FilePaths, d \in StoreDirs :
       /\ pargs' = [dir |-> d, fs |-> s]
       /\ pres' = new(s, d)
       /\ ptext' = Printed(new(s, d))
  /\ pop' = "new"
  /\ UNCHANGED pcall
  /\ UNCHANGED <<avars, svars, lvars, dvars, cvars, nvars, fvars, hvars, kvars, qvars>>

\* cmp of two store paths, and the texts of the two
PathCmp ==
  /\ pop = "none"
  /\ \E a, b \in StorePathValues :
       /\ pargs' = [a |-> a, b |-> b]
       /\ pres' = [err |-> "", val |-> path_cmp(a, b)]
       /\ ptext' = [err |-> "", val |-> <<path_to_string(a).val, path_to_string(b).val>>]
  /\ pop' = "cmp"
  /\ UNCHANGED pcall
  /\ UNCHANGED <<avars, svars, lvars, dvars, cvars, nvars, fvars, hvars, kvars, qvars>>

\* the hashes of fixed outputs: of every type
FixedHashes ==
  {[ty |-> ty, data |-> <<x>> \o Zeros(size(ty) - 1)] : ty \in HashTypes, x \in {0, 171}}

FixedNames == {<<110, 105, 120, 45, 50, 46, 52>>, <<46, 120>>}

FixedRefs ==
  LET p == [hash |-> <<1>> \o Zeros(HASH_BYTES - 1), name |-> <<97>>]
      q == [hash |-> Zeros(HASH_BYTES - 1) \o <<255>>, name |-> <<98>>]
  IN {<<>>, <<p>>, <<q, p>>}

\* make_fixed_output_path
PathMakeFixed ==
  /\ pop = "none"
  /\ \E d \in StoreDirs, recursive \in BOOLEAN, h \in FixedHashes, n \in FixedNames,
        rs \in FixedRefs, has_self \in BOOLEAN :
       /\ pargs' = [dir |-> d, recursive |-> recursive, hash |-> h, name |-> n,
                    references |-> rs, has_self_reference |-> has_self]
       /\ pcall' = FixedOutputCall(d, recursive, h, rs, has_self)
       /\ pres' = make_fixed_output_path(d, recursive, h, n, rs, has_self)
  /\ pop' = "fixed"
  /\ UNCHANGED ptext
  /\ UNCHANGED <<avars, svars, lvars, dvars, cvars, nvars, fvars, hvars, kvars, qvars>>

IdlePath ==
  /\ pargs = NoArgs
  /\ ptext = NoResult
  /\ pres = NoResult
  /\ pcall = NoCall
  /\ pop = "none"

(***************************************************************************)
(* The parser applied to streams: restore_into an empty destination.  A    *)
(* stream is given by the strings it is made of, each written with its     *)
(* length and its padding, or by its bytes.                                *)
(***************************************************************************)
\* the stream made of the strings ts
RECURSIVE Ser(_)
Ser(ts) == IF ts = <<>> THEN <<>> ELSE write_str(Head(ts)) \o Ser(Tail(ts))

\* the positions of the padding of the strings ts in Ser(ts), the first
\* string starting after off bytes
RECURSIVE PadPositions(_, _)
PadPositions(ts, off) ==
  IF ts = <<>> THEN {}
  ELSE LET n == Len(write_str(Head(ts)))
       IN ((off + 8 + Len(Head(ts)) + 1)..(off + n)) \cup PadPositions(Tail(ts), off + n)

RegularNode == <<TagOpen, TagType, TagRegular, TagContents, Hi, TagClose>>
ExecutableNode ==
  <<TagOpen, TagType, TagRegular, TagExecutable, <<>>, TagContents, Hi, TagClose>>
EmptyFileNode == <<TagOpen, TagType, TagRegular, TagContents, <<>>, TagClose>>
LinkNode == <<TagOpen, TagType, TagSymlink, TagTarget, NameA, TagClose>>
EntryRecord(name, node) == <<TagEntry, TagOpen, TagName, name, TagNode>> \o node \o <<TagClose>>
DirNode(entries) == <<TagOpen, TagType, TagDirectory>> \o entries \o <<TagClose>>

\* well-formed archives: the magic and one node
WellFormed ==
  {<<NAR_MAGIC>> \o n : n \in
     {RegularNode, ExecutableNode, EmptyFileNode, LinkNode, DirNode(<<>>),
      DirNode(EntryRecord(NameA, RegularNode)),
      DirNode(EntryRecord(NameA, DirNode(EntryRecord(NameB, ExecutableNode)))),
      DirNode(EntryRecord(NameA, DirNode(<<>>)) \o EntryRecord(NameB, LinkNode))}}

\* archives with a node that has two type fields
TwoTypes ==
  {<<NAR_MAGIC>> \o n : n \in
     {<<TagOpen, TagType, TagRegular, TagType, TagRegular, TagClose>>,
      <<TagOpen, TagType, TagSymlink, TagType, TagDirectory, TagClose>>,
      <<TagOpen, TagType, TagDirectory, TagType, TagRegular, TagClose>>,
      DirNode(EntryRecord(NameA, <<TagOpen, TagType, TagRegular, TagContents, Hi,
                                   TagType, TagRegular, TagClose>>))}}

\* archives with a node that is closed without a type field
Untyped ==
  {<<NAR_MAGIC>> \o n : n \in
     {<<TagOpen, TagClose>>,
      DirNode(EntryRecord(NameA, <<TagOpen, TagClose>>)),
      DirNode(EntryRecord(NameA, RegularNode) \o EntryRecord(NameB, <<TagOpen, TagClose>>))}}

\* entry names the parser must refuse
BadNames == {<<>>, <<46>>, <<46, 46>>, <<97, Slash, 98>>, <<Slash>>, <<97, 0>>}

\* entry names the parser must take
GoodNames == {NameA, <<46, 46, 46>>, <<46, 97>>, <<97, 46>>}

\* archives with an entry of the name n, at the top and one level down
Named(n) ==
  {<<NAR_MAGIC>> \o DirNode(EntryRecord(n, RegularNode)),
   <<NAR_MAGIC>> \o DirNode(EntryRecord(NameA, DirNode(EntryRecord(n, LinkNode)))),
   <<NAR_MAGIC>> \o DirNode(EntryRecord(NameA, RegularNode) \o EntryRecord(n, DirNode(<<>>)))}

BadlyNamed == UNION {Named(n) : n \in BadNames}

\* streams that do not begin with the magic, followed by a node
NoMagic ==
  {<<m>> \o RegularNode : m \in {<<110, 105, 120, 45, 97, 114, 99, 104, 105, 118, 101, 45, 50>>, <<110, 105, 120, 45, 97, 114, 99, 104, 105, 118, 101, 45, 49, 48>>, <<110, 105, 120, 45, 97, 114, 99, 104, 105, 118, 101, 45>>, <<78, 73, 88, 45, 65, 82, 67, 72, 73, 86, 69, 45, 49>>, <<>>}}
  \cup {RegularNode, DirNode(EntryRecord(NameA, RegularNode))}

\* other malformed archives: fields out of place
Misplaced ==
  {<<NAR_MAGIC>> \o n : n \in
     {<<TagOpen, TagContents, Hi, TagClose>>,
      <<TagOpen, TagType, TagNode, TagClose>>,
      DirNode(<<TagEntry, TagOpen, TagNode>> \o RegularNode \o <<TagClose>>),
      <<TagType, TagRegular>>}}

\* archives with a field that does not fit the variant of its node, at the
\* top and after a file was restored
Misfits ==
  {<<NAR_MAGIC>> \o n : n \in
     {<<TagOpen, TagType, TagDirectory, TagContents, Hi, TagClose>>,
      <<TagOpen, TagType, TagDirectory, TagExecutable, <<>>, TagClose>>,
      <<TagOpen, TagType, TagSymlink, TagContents, Hi, TagClose>>,
      <<TagOpen, TagType, TagSymlink, TagExecutable, <<>>, TagClose>>,
      <<TagOpen, TagType, TagRegular, TagTarget, NameA, TagClose>>,
      <<TagOpen, TagType, TagRegular, TagEntry, TagOpen, TagClose, TagClose>>,
      <<TagOpen, TagExecutable, <<>>, TagType, TagRegular, TagClose>>,
      DirNode(EntryRecord(NameA, RegularNode) \o <<TagContents, Hi>>),
      DirNode(EntryRecord(NameA, RegularNode) \o <<TagExecutable, <<>>>>),
      DirNode(EntryRecord(NameA, RegularNode)
                \o EntryRecord(NameB, <<TagOpen, TagContents, Hi, TagClose>>)),
      DirNode(EntryRecord(NameA, RegularNode)
                \o EntryRecord(NameB, <<TagOpen, TagType, TagSymlink, TagExecutable, <<>>,
                                        TagClose>>))}}

\* files with their fields repeated or in another order
Refits ==
  {<<NAR_MAGIC>> \o n : n \in
     {<<TagOpen, TagType, TagRegular, TagContents, Hi, TagContents, NameA, TagClose>>,
      <<TagOpen, TagType, TagRegular, TagContents, Hi, TagExecutable, <<>>, TagClose>>}}

TokenStreams ==
  WellFormed \cup TwoTypes \cup Untyped \cup BadlyNamed \cup NoMagic \cup Misplaced
    \cup UNION {Named(n) : n \in GoodNames} \cup Misfits \cup Refits

\* streams given by their bytes: streams that end early, and the magic with a
\* length that is too large
RawStreams ==
  {<<>>, <<13, 0, 0>>, write_usize(13), write_usize(13) \o NAR_MAGIC,
   write_usize(14) \o NAR_MAGIC \o <<0, 0, 0>> \o Ser(RegularNode),
   SubSeq(Ser(<<NAR_MAGIC>> \o RegularNode), 1, 40)}

\* the values of a padding byte with one bit flipped
FlippedBytes == {1, 128}

NoStream == [kind |-> "none"]

Outcome(st) == [err |-> st.err, calls |-> st.calls, fs |-> st.fs, pos |-> st.pos]

\* restore_into on an archive made of strings
ParseTokens ==
  /\ nin = NoStream
  /\ \E ts \in TokenStreams :
       /\ nin' = [kind |-> "tokens", tokens |-> ts]
       /\ nsrc' = Ser(ts)
       /\ nres' = Outcome(restore_into(NoTree, Ser(ts)))
  /\ UNCHANGED <<avars, svars, lvars, dvars, cvars, pvars, fvars, hvars, kvars, qvars>>

Flip(s, pos, v) == [s EXCEPT ![pos] = v]

\* restore_into on a well-formed archive with one bit of its padding flipped
ParseFlipped ==
  /\ nin = NoStream
  /\ \E ts \in WellFormed :
       \E pos \in PadPositions(ts, 0), v \in FlippedBytes :
         /\ nin' = [kind |-> "flipped", tokens |-> ts, pos |-> pos]
         /\ nsrc' = Flip(Ser(ts), pos, v)
         /\ nres' = Outcome(restore_into(NoTree, Flip(Ser(ts), pos, v)))
  /\ UNCHANGED <<avars, svars, lvars, dvars, cvars, pvars, fvars, hvars, kvars, qvars>>

\* restore_into on a stream of bytes
ParseRaw ==
  /\ nin = NoStream
  /\ \E s \in RawStreams :
       /\ nin' = [kind |-> "raw"]
       /\ nsrc' = s
       /\ nres' = Outcome(restore_into(NoTree, s))
  /\ UNCHANGED <<avars, svars, lvars, dvars, cvars, pvars, fvars, hvars, kvars, qvars>>

IdleParse ==
  /\ nin = NoStream
  /\ nsrc = <<>>
  /\ nres = Outcome(NewSink(NoTree))

(***************************************************************************)
(* flock, try_lock and the FileLock future (src/src/store/local/lock.rs,   *)
(* the same code in src/src/store/local/gc.rs), on one lock file that this *)
(* open file and one other open file lock.                                 *)
(***************************************************************************)
LockTypes == {"Read", "Write", "Unlock"}

\* the lock a granted request leaves this open file with
Mode(ty) == CASE ty = "Read" -> "shared" [] ty = "Write" -> "exclusive" [] OTHER -> "none"

\* the other open file's lock does not stand in the way of the request
Compatible(other, ty) ==
  \/ ty = "Unlock"
  \/ ty = "Read" /\ other # "exclusive"
  \/ ty = "Write" /\ other = "none"

\* flock(fd, flag | LOCK_NB): what the kernel may answer.  0 grants the
\* request; EWOULDBLOCK refuses it because of the other lock; the call may
\* be interrupted (EINTR) or fail for another reason (ENOLCK)
flock(other, ty) ==
  (IF Compatible(other, ty) THEN {"0"} ELSE {"EWOULDBLOCK"}) \cup {"EINTR", "ENOLCK"}

\* FsExt2::try_lock: Ok(true), Ok(false) or Err
try_lock(errno) ==
  IF errno # "0" /\ errno = "EWOULDBLOCK" THEN "false"
  ELSE IF errno # "0" /\ errno # "EINTR" THEN "Err"
  ELSE "true"

\* FileLock::poll: Pending, Ready(Err) or Ready(Ok)
poll(errno) ==
  IF errno # "0" /\ errno = "EWOULDBLOCK" THEN "Pending"
  ELSE IF errno # "0" /\ errno # "EINTR" THEN "Err"
  ELSE "Ok"

NoFlock ==
  [form |-> "none", ty |-> "Unlock", errno |-> "0", granted |-> FALSE, ret |-> "none",
   polls |-> 0]

\* the lock of this open file after the call: a granted request sets it; a
\* request that is not granted leaves it, or drops it when the request was
\* to convert it, which the kernel does by removing the lock first
After(mine, ty, errno) ==
  IF errno = "0" THEN {Mode(ty)}
  ELSE IF mine # "none" /\ Mode(ty) # mine THEN {mine, "none"}
  ELSE {mine}

\* file.try_lock(ty)
FlTryLock ==
  /\ fcall.ret # "Pending"
  /\ fcalls < MaxCalls
  /\ fcalls' = fcalls + 1
  /\ \E ty \in LockTypes : \E errno \in flock(fother, ty) :
       /\ fcall' = [form |-> "try_lock", ty |-> ty, errno |-> errno,
                    granted |-> errno = "0", ret |-> try_lock(errno),
                    polls |-> 0]
       /\ fmine' \in After(fmine, ty, errno)
  /\ UNCHANGED fother
  /\ UNCHANGED <<avars, svars, lvars, dvars, cvars, pvars, nvars, hvars, kvars, qvars>>

\* file.lock(ty).await: the first poll of the future
FlPoll ==
  /\ fcall.ret # "Pending"
  /\ fcalls < MaxCalls
  /\ fcalls' = fcalls + 1
  /\ \E ty \in LockTypes : \E errno \in flock(fother, ty) :
       /\ fcall' = [form |-> "poll", ty |-> ty, errno |-> errno,
                    granted |-> errno = "0", ret |-> poll(errno),
                    polls |-> 1]
       /\ fmine' \in After(fmine, ty, errno)
  /\ UNCHANGED fother
  /\ UNCHANGED <<avars, svars, lvars, dvars, cvars, pvars, nvars, hvars, kvars, qvars>>

\* a pending future is polled again
FlPollAgain ==
  /\ fcall.ret = "Pending"
  /\ fcalls < MaxCalls
  /\ fcalls' = fcalls + 1
  /\ \E errno \in flock(fother, fcall.ty) :
       /\ fcall' = [fcall EXCEPT !.errno = errno, !.granted = errno = "0",
                                 !.ret = poll(errno),
                                 !.polls = @ + 1]
       /\ fmine' \in After(fmine, fcall.ty, errno)
  /\ UNCHANGED fother
  /\ UNCHANGED <<avars, svars, lvars, dvars, cvars, pvars, nvars, hvars, kvars, qvars>>

\* the other open file takes, converts or releases its lock
FlOther ==
  /\ \E m \in {"none", "shared", "exclusive"} :
       /\ m # fother
       /\ m = "shared" => fmine # "exclusive"
       /\ m = "exclusive" => fmine = "none"
       /\ fother' = m
  /\ UNCHANGED <<fmine, fcall, fcalls>>
  /\ UNCHANGED <<avars, svars, lvars, dvars, cvars, pvars, nvars, hvars, kvars, qvars>>

IdleFlock ==
  /\ fother = "none"
  /\ fmine = "none"
  /\ fcall = NoFlock
  /\ fcalls = 0

(***************************************************************************)
(* The hash sink (src/src/hash/sink.rs) and Hash::hash (src/src/hash.rs).  *)
(***************************************************************************)
\* the frames a producer sends: tags, byte strings and integers
Frames ==
  {[kind |-> "Tag", bytes |-> t, int |-> 0] : t \in {TagOpen, TagType, TagContents}}
    \cup {[kind |-> "Bytes", bytes |-> b, int |-> 0] : b \in {<<>>, NameA, Hi}}
    \cup {[kind |-> "Int", bytes |-> <<>>, int |-> n] : n \in {0, 2, 258}}

\* what the wire format prescribes for a frame: a string for a tag and for
\* a byte string, 8 little-endian bytes for an integer
Wire(f) == IF f.kind = "Int" THEN write_usize(f.int) ELSE write_str(f.bytes)

RECURSIVE WireAll(_)
WireAll(fs) == IF fs = <<>> THEN <<>> ELSE Wire(Head(fs)) \o WireAll(Tail(fs))

\* HashSink::start_send: the bytes of a byte string, the bytes of a tag, the
\* 8 bytes (i >> (8 * ix)) as u8 of an integer, lowest first
start_send(ctx, item) ==
  CASE item.kind = "Bytes" -> ctx \o item.bytes
    [] item.kind = "Tag" -> ctx \o item.bytes
    [] item.kind = "Int" -> ctx \o LittleEndian(item.int, 8)

\* the size of the buffer Hash::hash reads into
BufLen == 8192

\* one turn of the loop of Hash::hash after a read that gave the bytes got:
\* the buffer starts as zeros, the read fills its front, ctx.input(&buf)
\* absorbs the whole buffer
hash_turn(ctx, got) == ctx \o got \o Zeros(BufLen - Len(got))

NoDigest == [op |-> "none", val |-> hash_bytes(<<>>, "sha256")]

\* sink.send(item) on a hash sink
HsSend ==
  /\ hres.op = "none" /\ hreads = <<>>
  /\ Len(hsent) < MaxEmit
  /\ \E f \in Frames :
       /\ hsent' = Append(hsent, f)
       /\ hctx' = start_send(hctx, f)
  /\ UNCHANGED <<hreads, hres>>
  /\ UNCHANGED <<avars, svars, lvars, dvars, cvars, pvars, nvars, fvars, kvars, qvars>>

\* HashSink::finish
HsFinish ==
  /\ hres.op = "none" /\ hreads = <<>> /\ hsent # <<>>
  /\ hres' = [op |-> "finish", val |-> hash_bytes(hctx, "sha256")]
  /\ UNCHANGED <<hsent, hctx, hreads>>
  /\ UNCHANGED <<avars, svars, lvars, dvars, cvars, pvars, nvars, fvars, kvars, qvars>>

\* the reads a stream may answer with: some of its bytes, never more than
\* the buffer holds
Reads == {<<104>>, <<105>>, Hi}

\* Hash::hash: r.read(&mut buf) gives some bytes and the loop absorbs
HhRead ==
  /\ hres.op = "none" /\ hsent = <<>>
  /\ Len(hreads) < MaxEmit
  /\ \E got \in Reads :
       /\ hreads' = Append(hreads, got)
       /\ hctx' = hash_turn(hctx, got)
  /\ UNCHANGED <<hsent, hres>>
  /\ UNCHANGED <<avars, svars, lvars, dvars, cvars, pvars, nvars, fvars, kvars, qvars>>

\* Hash::hash: r.read(&mut buf) gives 0, the loop ends and the context
\* becomes the hash
HhEof ==
  /\ hres.op = "none" /\ hsent = <<>>
  /\ hres' = [op |-> "hash", val |-> hash_bytes(hctx, "sha256")]
  /\ UNCHANGED <<hsent, hctx, hreads>>
  /\ UNCHANGED <<avars, svars, lvars, dvars, cvars, pvars, nvars, fvars, kvars, qvars>>

IdleHash ==
  /\ hsent = <<>>
  /\ hctx = <<>>
  /\ hreads = <<>>
  /\ hres = NoDigest

(***************************************************************************)
(* The caching store wrapper (src/src/store/cached/mod.rs) around a store  *)
(* that holds a set of valid paths.                                        *)
(***************************************************************************)
\* get_path_info of the wrapped store
inner_get_path_info(store, sp) == IF sp \in store THEN "some" ELSE "none"

\* Cached::get_path_info: a cached answer is returned as it is; on a miss
\* the disk cache, when there is one, is asked first, and lookup_nar is
\* todo!(); otherwise the wrapped store is asked and its answer is cached
cached_get_path_info(cache, disk, store, sp) ==
  IF cache[sp] # "miss" THEN [ret |-> cache[sp], cache |-> cache]
  ELSE IF disk THEN [ret |-> "Panic", cache |-> cache]
  ELSE LET new_data == inner_get_path_info(store, sp)
       IN [ret |-> new_data, cache |-> [cache EXCEPT ![sp] = new_data]]

\* Store::is_valid_path: get_path_info(path).map(|x| x.is_some())
cached_is_valid_path(cache, disk, store, sp) ==
  LET g == cached_get_path_info(cache, disk, store, sp)
  IN [ret |-> CASE g.ret = "some" -> "true" [] g.ret = "none" -> "false" [] OTHER -> g.ret,
      cache |-> g.cache]

NoLookup == [op |-> "none", path |-> fixed_dest(Hi, "sha256"), ret |-> "none"]

\* get_path_info(path) through the wrapper
KGetPathInfo ==
  /\ klast.ret # "Panic"
  /\ kops < MaxOps
  /\ kops' = kops + 1
  /\ \E sp \in StorePaths :
       LET g == cached_get_path_info(kcache, kdisk, kstore, sp)
       IN /\ kcache' = g.cache
          /\ klast' = [op |-> "get_path_info", path |-> sp, ret |-> g.ret]
  /\ UNCHANGED <<kdisk, kstore>>
  /\ UNCHANGED <<avars, svars, lvars, dvars, cvars, pvars, nvars, fvars, hvars, qvars>>

\* is_valid_path(path) through the wrapper
KIsValidPath ==
  /\ klast.ret # "Panic"
  /\ kops < MaxOps
  /\ kops' = kops + 1
  /\ \E sp \in StorePaths :
       LET g == cached_is_valid_path(kcache, kdisk, kstore, sp)
       IN /\ kcache' = g.cache
          /\ klast' = [op |-> "is_valid_path", path |-> sp, ret |-> g.ret]
  /\ UNCHANGED <<kdisk, kstore>>
  /\ UNCHANGED <<avars, svars, lvars, dvars, cvars, pvars, nvars, fvars, hvars, qvars>>

\* add_nar_to_store through the wrapper: the call of the wrapped store,
\* which registers the path of the info or fails
KAddNar ==
  /\ klast.ret # "Panic"
  /\ kops < MaxOps
  /\ kops' = kops + 1
  /\ \E sp \in StorePaths : \E ok \in BOOLEAN :
       /\ kstore' = IF ok THEN kstore \cup {sp} ELSE kstore
       /\ klast' = [op |-> "add_nar_to_store", path |-> sp, ret |-> IF ok THEN "Ok" ELSE "Err"]
  /\ UNCHANGED <<kdisk, kcache>>
  /\ UNCHANGED <<avars, svars, lvars, dvars, cvars, pvars, nvars, fvars, hvars, qvars>>

\* add_path_to_store through the wrapper: the call of the wrapped store,
\* which registers the path it made and returns it, or fails
KAddPath ==
  /\ klast.ret # "Panic"
  /\ kops < MaxOps
  /\ kops' = kops + 1
  /\ \E sp \in StorePaths : \E ok \in BOOLEAN :
       /\ kstore' = IF ok THEN kstore \cup {sp} ELSE kstore
       /\ klast' = [op |-> "add_path_to_store", path |-> sp, ret |-> IF ok THEN "Ok" ELSE "Err"]
  /\ UNCHANGED <<kdisk, kcache>>
  /\ UNCHANGED <<avars, svars, lvars, dvars, cvars, pvars, nvars, fvars, hvars, qvars>>

IdleCalls ==
  /\ kcache = [sp \in StorePaths |-> "miss"]
  /\ kstore = {}
  /\ klast = NoLookup
  /\ kops = 0

IdleCached == kdisk = FALSE /\ IdleCalls

(***************************************************************************)
(* canonicalise_path_metadata (src/src/store/local/mod.rs) on a tree of    *)
(* files: [path -> [st_mode, st_mtime, st_uid]], st_uid being "euid" for   *)
(* the effective user of the process or "other".                           *)
(***************************************************************************)
S_IFMT == 61440
S_IFREG == 32768
S_IFDIR == 16384
S_IFLNK == 40960
S_IFIFO == 4096
S_IXUSR == 64

\* mode & S_IFMT and mode & !S_IFMT
TypeBits(mode) == mode - (mode % 4096)
PermBits(mode) == mode % 4096

s_isreg(mode) == TypeBits(mode) = S_IFREG
s_isdir(mode) == TypeBits(mode) = S_IFDIR
s_islnk(mode) == TypeBits(mode) = S_IFLNK

\* the process may change the metadata of the file
MayChange(su, st) == su \/ st.st_uid = "euid"

\* the fchmodat half when any execute bit, not the user's, brings 0111
canonicalize_permissionsAnyExec(tree, path, st, su) ==
  IF ~s_islnk(st.st_mode) /\ PermBits(st.st_mode) \notin {292, 365}
    THEN IF ~MayChange(su, st) THEN [err |-> "Io", tree |-> tree]
         ELSE [err |-> "",
               tree |-> [tree EXCEPT ![path].st_mode =
                           TypeBits(@) + 292
                             + (IF \E k \in {1, 8, 64} : (st.st_mode \div k) % 2 = 1
                                  THEN 73 ELSE 0)]]
  ELSE [err |-> "", tree |-> tree]

\* the fchmodat half: permissions that are neither 0444 nor 0555 become
\* 0444, and 0111 on top when the user-execute bit is set
canonicalize_permissions(tree, path, st, su) ==
  IF ~s_islnk(st.st_mode) /\ PermBits(st.st_mode) \notin {292, 365}
    THEN IF ~MayChange(su, st) THEN [err |-> "Io", tree |-> tree]
         ELSE [err |-> "",
               tree |-> [tree EXCEPT ![path].st_mode =
                           TypeBits(@) + 292
                             + (IF (st.st_mode \div S_IXUSR) % 2 = 1 THEN 73 ELSE 0)]]
  ELSE [err |-> "", tree |-> tree]

\* the utimensat half: a modification time other than 1 becomes 1
Utimensat(r, path, st, su) ==
  IF r.err # "" \/ st.st_mtime = 1 THEN r
  ELSE IF ~MayChange(su, st) THEN [err |-> "Io", tree |-> r.tree]
  ELSE [err |-> "", tree |-> [r.tree EXCEPT ![path].st_mtime = 1]]

\* canonicalize_timestamp_and_permissions: a file that is not a symlink and
\* whose permissions are neither 0444 nor 0555 gets 0444, and 0111 on top
\* when its user-execute bit is set; then the modification time
canonicalize_timestamp_and_permissions(tree, path, st, su) ==
  Utimensat(canonicalize_permissions(tree, path, st, su), path, st, su)

\* fchownat to the effective user when the file belongs to someone else
Fchownat(r, path, st, su) ==
  IF r.err # "" \/ st.st_uid = "euid" THEN r
  ELSE IF ~su THEN [err |-> "Io", tree |-> r.tree]
  ELSE [err |-> "", tree |-> [r.tree EXCEPT ![path].st_uid = "euid"]]

\* the entries of the directory at path in the order read_dir gives them
Entries(tree, path, order) ==
  LET has(n) == Append(path, n) \in DOMAIN tree
      up == (IF has("a") THEN <<Append(path, "a")>> ELSE <<>>)
              \o (IF has("b") THEN <<Append(path, "b")>> ELSE <<>>)
  IN IF order = "up" THEN up ELSE [i \in 1..Len(up) |-> up[Len(up) + 1 - i]]

\* lstat of an entry needs the search permission of its directory
MayEnter(tree, dir, su) == su \/ (tree[dir].st_mode \div S_IXUSR) % 2 = 1

RECURSIVE canonicalise_path_metadata_impl(_, _, _, _)
RECURSIVE CanonEntries(_, _, _, _, _)

\* the loop over the entries of a directory, left at the first error
CanonEntries(r, dir, entries, order, su) ==
  IF r.err # "" \/ entries = <<>> THEN r
  ELSE IF ~MayEnter(r.tree, dir, su) THEN [err |-> "Io", tree |-> r.tree]
  ELSE CanonEntries(canonicalise_path_metadata_impl(r.tree, Head(entries), order, su),
                    dir, Tail(entries), order, su)

\* the directory half of canonicalise_path_metadata_impl
CanonDir(r, path, st, order, su) ==
  IF r.err = "" /\ s_isdir(st.st_mode)
    THEN CanonEntries(r, path, Entries(r.tree, path, order), order, su)
  ELSE r

\* canonicalise_path_metadata_impl with uid = None: lstat, the type test,
\* timestamp and permissions, ownership, then the entries of a directory
canonicalise_path_metadata_impl(tree, path, order, su) ==
  LET st == tree[path]
  IN IF ~(s_isreg(st.st_mode) \/ s_isdir(st.st_mode) \/ s_islnk(st.st_mode))
       THEN [err |-> "UnsupportedType", tree |-> tree]
     ELSE CanonDir(Fchownat(canonicalize_timestamp_and_permissions(tree, path, st, su),
                            path, st, su),
                   path, st, order, su)

\* canonicalise_path_metadata(path, None)
canonicalise_path_metadata(tree, order, su) ==
  canonicalise_path_metadata_impl(tree, <<>>, order, su)

\* the files a tree is made of
FileStats ==
  {[st_mode |-> S_IFREG + p, st_mtime |-> t, st_uid |-> u] :
     p \in {420, 493, 292, 2541, 301}, t \in {1, 5}, u \in {"euid", "other"}}
DirStats ==
  {[st_mode |-> S_IFDIR + p, st_mtime |-> 5, st_uid |-> "euid"] : p \in {493, 420, 365}}
LinkStats == {[st_mode |-> S_IFLNK + 511, st_mtime |-> t, st_uid |-> "euid"] : t \in {1, 5}}
FifoStats == {[st_mode |-> S_IFIFO + 420, st_mtime |-> 5, st_uid |-> "euid"]}

\* a file, a symlink, a directory with a file and a symlink or a fifo, a
\* directory with a directory with a file
CanonTrees ==
  {(<<>> :> f) : f \in FileStats \cup LinkStats}
    \cup {(<<>> :> d) @@ (<<"a">> :> f) @@ (<<"b">> :> l) :
            d \in DirStats, f \in FileStats, l \in LinkStats \cup FifoStats}
    \cup {(<<>> :> d) @@ (<<"a">> :> e) @@ (<<"a", "a">> :> f) :
            d \in DirStats, e \in DirStats,
            f \in {g \in FileStats : g.st_uid = "euid"}}

\* canonicalise_path_metadata(path, None), a first and a second time
Canonicalise ==
  /\ qres.calls < MaxCalls
  /\ qres.err = ""
  /\ LET r == canonicalise_path_metadata(qtree, qorder, qroot)
     IN /\ qtree' = r.tree
        /\ qres' = [calls |-> qres.calls + 1, err |-> r.err]
        /\ qfirst' = IF qres.calls = 0 THEN r.tree ELSE qfirst
  /\ UNCHANGED <<qroot, qorder, qbefore>>
  /\ UNCHANGED <<avars, svars, lvars, dvars, cvars, pvars, nvars, fvars, hvars, kvars>>

IdleCanonCalls ==
  /\ qbefore = qtree
  /\ qfirst = qtree
  /\ qres = [calls |-> 0, err |-> ""]

IdleCanon ==
  /\ qroot = FALSE
  /\ qorder = "up"
  /\ qtree = (<<>> :> [st_mode |-> S_IFREG + 292, st_mtime |-> 1, st_uid |-> "euid"])
  /\ IdleCanonCalls

(***************************************************************************)
(* The specifications.                                                     *)
(***************************************************************************)
IdleOps ==
  /\ gcLock = [exists |-> FALSE, holders |-> {}]
  /\ trFile = [p \in Procs |-> [exists |-> FALSE, content |-> <<>>, lock |-> "none"]]
  /\ lockFile = [s \in StorePaths |-> [exists |-> FALSE, size |-> 0, holder |-> {}]]
  /\ canon = [s \in StorePaths |-> FALSE]
  /\ catalog = {}
  /\ pc = [p \in Procs |-> "idle"]
  /\ op = [p \in Procs |-> "none"]
  /\ calls = 0
  /\ result = [p \in Procs |-> "none"]
  /\ local = [p \in Procs |-> [dest |-> fixed_dest(Hi, "sha256"), hash |-> hash_bytes(<<>>, "sha256"),
                               len |-> 0]]
  /\ hist = [p \in Procs |-> [rooted |-> FALSE, touched |-> FALSE, verified |-> FALSE,
                              beforeFs |-> realfs, beforeRows |-> catalog,
                              prevOp |-> "none", prevResult |-> "none",
                              overlap |-> FALSE]]

IdleStore == realfs = [s \in StorePaths |-> NoTree] /\ IdleOps

\* the streams of add-nar attempts that fail and leave contents behind: the
\* archive of a file and the archive of a directory with one file, both cut
\* short of their last byte
NarDir ==
  write_str(NAR_MAGIC) \o Ser(DirNode(EntryRecord(NameA, RegularNode)))
FailedStreams == {Front(NarFile), Front(NarDir)}

\* what such an attempt leaves at the real path
Leftovers == {restore_into(NoTree, s).fs : s \in FailedStreams}

IdleArchive ==
  /\ world = (<<>> :> Dir)
  /\ root = <<>>
  /\ rdorder = (<<>> :> <<>>)
  /\ filt = {}
  /\ dstack = <<>>
  /\ dstatus = "idle"
  /\ out = <<>>
  /\ elog = <<>>
  /\ restored = [status |-> "none", fs |-> NoTree]

\* the archive codec: dump a tree of the host, restore the stream
InitArchive ==
  /\ world \in Worlds
  /\ root \in {p \in DOMAIN world : Len(p) <= 1}
  /\ rdorder \in Orders(world)
  /\ filt \in {{}, {NameB}}
  /\ dstack = <<[path |-> root, phase |-> "start"]>>
  /\ dstatus = "running"
  /\ out = <<>>
  /\ elog = <<>>
  /\ restored = [status |-> "none", fs |-> NoTree]
  /\ info = [store_path |-> fixed_dest(Hi, "sha256"), nar_hash |-> hash_bytes(<<>>, "sha256"),
             nar_size |-> None, references |-> {}, registration_time |-> 1,
             ultimate |-> FALSE]
  /\ source = "file"
  /\ hostfile = Dir
  /\ algo = "sha256"
  /\ IdleStore
  /\ IdleLocks
  /\ IdleDb
  /\ IdleCodec /\ IdlePath /\ IdleParse /\ IdleFlock /\ IdleHash /\ IdleCached /\ IdleCanon

NextArchive == DumpStart \/ DumpLoop \/ DumpEntryClose \/ DumpReturn \/ RestoreDump

SpecArchive == InitArchive /\ [][NextArchive]_vars

\* the store: a fresh store directory, NumProcs processes, and the
\* arguments their callers pass.  The info varies where the stream restores;
\* the algorithm varies where the host path can be hashed.
SizeChoices(s) ==
  {None, Some(Len(Concat(Chunks(s)))), Some(Len(Concat(Chunks(s))) + 1)}

HashChoices(s) ==
  {hash_bytes(Concat(Chunks(s)), "sha256"), hash_bytes(<<>>, "sha256")}

Init ==
  /\ source \in Sources
  /\ info \in {[store_path |-> fixed_dest(Hi, "sha256"), nar_hash |-> h, nar_size |-> z,
                 references |-> {}, registration_time |-> 1, ultimate |-> FALSE] :
                 h \in IF source = "file" THEN HashChoices(source)
                                          ELSE {hash_bytes(<<>>, "sha256")},
                 z \in IF source = "file" THEN SizeChoices(source) ELSE {None}}
  /\ hostfile \in HostFiles
  /\ algo \in IF hostfile.type = "directory" THEN {"sha256"} ELSE Algos
  /\ IdleStore
  /\ IdleArchive
  /\ IdleLocks
  /\ IdleDb
  /\ IdleCodec /\ IdlePath /\ IdleParse /\ IdleFlock /\ IdleHash /\ IdleCached /\ IdleCanon

Next ==
  \E p \in Procs :
    \/ \E o \in {"add_nar", "add_path", "add_temp_root"} : Call(p, o)
    \/ TrOpenGc(p) \/ TrCreate(p) \/ TrLockRead(p) \/ TrWrite(p)
    \/ AnValid1(p) \/ AnLock(p) \/ AnValid2(p) \/ AnRemove(p) \/ AnRestore(p)
    \/ AnVerify(p) \/ AnCanon(p) \/ AnInsert(p)
    \/ ApHash(p) \/ ApValid(p) \/ ApRemove(p) \/ ApCopy(p) \/ ApCanon(p)
    \/ ApDump(p) \/ ApInsert(p)

Spec == Init /\ [][Next]_vars

\* the inputs of the store operations, fixed where no store operation runs
IdleInputs ==
  /\ info = [store_path |-> fixed_dest(Hi, "sha256"), nar_hash |-> hash_bytes(<<>>, "sha256"),
             nar_size |-> None, references |-> {}, registration_time |-> 1,
             ultimate |-> FALSE]
  /\ source = "file"
  /\ hostfile = Dir
  /\ algo = "sha256"

\* the catalog: a caller registers infos and queries them
InitDb ==
  IdleDb /\ IdleLocks /\ IdleArchive /\ IdleStore /\ IdleInputs /\ IdleCodec /\ IdlePath /\ IdleParse /\ IdleFlock /\ IdleHash /\ IdleCached /\ IdleCanon

NextDb == DbInsert \/ DbGetPathInfo \/ DbGetReferrers

SpecDb == InitDb /\ [][NextDb]_vars

\* the encodings: a value is encoded and the text decoded, or a text is decoded
InitCodec ==
  /\ cin \in {[ty |-> "", data |-> b] : b \in ByteStrings} \cup Hashes
  /\ cenc = ""
  /\ ctext = <<>>
  /\ cres = NoResult
  /\ carg = 0
  /\ cop = "none"
  /\ IdleDb /\ IdleLocks /\ IdleArchive /\ IdleStore /\ IdleInputs /\ IdlePath /\ IdleParse /\ IdleFlock /\ IdleHash /\ IdleCached /\ IdleCanon

NextCodec ==
  B32Encode \/ B32Decode \/ B32DecodeText \/ HashEncode \/ HashDecode \/ HashTruncate

SpecCodec == InitCodec /\ [][NextCodec]_vars

\* store paths: one function is applied to inputs, and parse to a printed path
InitPath ==
  /\ IdlePath /\ IdleDb /\ IdleLocks /\ IdleArchive /\ IdleStore /\ IdleInputs /\ IdleCodec
  /\ IdleParse /\ IdleFlock /\ IdleHash /\ IdleCached /\ IdleCanon

NextPath == PathToString \/ PathParsePrinted \/ PathNew \/ PathCmp \/ PathMakeFixed

SpecPath == InitPath /\ [][NextPath]_vars

\* the parser: restore_into is applied to one stream
InitParse ==
  /\ IdleParse /\ IdleFlock /\ IdleHash /\ IdleCached /\ IdleCanon /\ IdlePath /\ IdleDb /\ IdleLocks /\ IdleArchive /\ IdleStore /\ IdleInputs
  /\ IdleCodec

NextParse == ParseTokens \/ ParseFlipped \/ ParseRaw

SpecParse == InitParse /\ [][NextParse]_vars

\* flock: this open file calls try_lock and awaits lock futures while another
\* open file takes and releases its lock
InitFlock ==
  /\ IdleFlock /\ IdleHash /\ IdleCached /\ IdleCanon /\ IdleParse /\ IdlePath /\ IdleDb /\ IdleLocks /\ IdleArchive /\ IdleStore
  /\ IdleInputs /\ IdleCodec

NextFlock == FlTryLock \/ FlPoll \/ FlPollAgain \/ FlOther

SpecFlock == InitFlock /\ [][NextFlock]_vars

\* add-nar over the leftovers of a failed attempt: the real path of the info
\* holds what an earlier add-nar with a failing stream left there
InitRetry ==
  /\ source \in Sources
  /\ info \in {[store_path |-> fixed_dest(Hi, "sha256"), nar_hash |-> h, nar_size |-> z,
                 references |-> {}, registration_time |-> 1, ultimate |-> FALSE] :
                 h \in IF source = "file" THEN HashChoices(source)
                                          ELSE {hash_bytes(<<>>, "sha256")},
                 z \in IF source = "file" THEN SizeChoices(source) ELSE {None}}
  /\ hostfile = Dir
  /\ algo = "sha256"
  /\ \E t \in Leftovers : realfs = [s \in StorePaths |-> IF s = info.store_path THEN t ELSE NoTree]
  /\ IdleOps
  /\ IdleArchive /\ IdleLocks /\ IdleDb /\ IdleCodec /\ IdlePath /\ IdleParse /\ IdleFlock /\ IdleHash /\ IdleCached /\ IdleCanon

NextRetry ==
  \E p \in Procs :
    \/ Call(p, "add_nar")
    \/ TrOpenGc(p) \/ TrCreate(p) \/ TrLockRead(p) \/ TrWrite(p)
    \/ AnValid1(p) \/ AnLock(p) \/ AnValid2(p) \/ AnRemove(p) \/ AnRestore(p)
    \/ AnVerify(p) \/ AnCanon(p) \/ AnInsert(p)

SpecRetry == InitRetry /\ [][NextRetry]_vars

\* hashing: a producer sends frames to a hash sink and finishes it, or
\* Hash::hash reads a stream to its end
InitHash ==
  /\ IdleHash /\ IdleCached /\ IdleCanon /\ IdleFlock /\ IdleParse /\ IdlePath /\ IdleDb /\ IdleLocks /\ IdleArchive
  /\ IdleStore /\ IdleInputs /\ IdleCodec

NextHash == HsSend \/ HsFinish \/ HhRead \/ HhEof

SpecHash == InitHash /\ [][NextHash]_vars

\* the caching wrapper, made with or without a disk cache over an empty
\* store: callers look paths up and add paths through it
InitCached ==
  /\ kdisk \in BOOLEAN
  /\ IdleCalls
  /\ IdleCanon
  /\ IdleHash /\ IdleFlock /\ IdleParse /\ IdlePath /\ IdleDb /\ IdleLocks /\ IdleArchive
  /\ IdleStore /\ IdleInputs /\ IdleCodec

NextCached == KGetPathInfo \/ KIsValidPath \/ KAddNar \/ KAddPath

SpecCached == InitCached /\ [][NextCached]_vars

\* canonicalization: a tree of files is canonicalised and canonicalised again
InitCanon ==
  /\ qroot \in BOOLEAN
  /\ qorder \in {"up", "down"}
  /\ qtree \in CanonTrees
  /\ IdleCanonCalls
  /\ IdleCached /\ IdleHash /\ IdleFlock /\ IdleParse /\ IdlePath /\ IdleDb /\ IdleLocks
  /\ IdleArchive /\ IdleStore /\ IdleInputs /\ IdleCodec

NextCanon == Canonicalise

SpecCanon == InitCanon /\ [][NextCanon]_vars

\* PathLocks: processes lock and unlock lists of paths; the lock file of one
\* path may have been left stale
InitLocks ==
  /\ IdleLockCalls
  /\ lfiles \in {NoLockFiles, StaleLockFile}
  /\ IdleArchive /\ IdleStore /\ IdleInputs /\ IdleDb /\ IdleCodec /\ IdlePath /\ IdleParse /\ IdleFlock /\ IdleHash /\ IdleCached /\ IdleCanon

NextLocks == \E p \in Procs : LkCall(p) \/ LkCreate(p) \/ LkMeta(p) \/ LkUnlock(p)

SpecLocks == InitLocks /\ [][NextLocks]_vars

\* the same under fair scheduling: a process that can take a step of a lock
\* call takes it, and a process that holds locks releases them at some time
SpecLocksFair ==
  /\ InitLocks
  /\ [][NextLocks]_vars
  /\ \A p \in Procs : WF_vars(LkCreate(p)) /\ WF_vars(LkMeta(p)) /\ WF_vars(LkUnlock(p))

(***************************************************************************)
(* Properties of the archive codec, stated over SpecArchive.               *)
(***************************************************************************)
\* the names dump_path emitted for the entries of directory d, in order
EmittedNames(d) ==
  LET es == SelectSeq(elog, LAMBDA e : e.dir = d)
  IN [i \in 1..Len(es) |-> es[i].name]

\* the names of directory d the filter lets through
PassingNames(d) ==
  {n \in EntryNames(world, canonicalize(world, d).path) : filter(filt, Append(d, n))}

\* C1: with the always-true filter, restoring the stream dump_path produced
\* for a tree succeeds and recreates that tree: the same names, contents,
\* executable bits and symlink targets.
C1_RoundTrip ==
  (restored.status # "none" /\ filt = {})
    => (restored.status = "ok" /\ restored.fs = SubtreeAt(world, root))

\* C2: the entries dump_path emits for a directory are the directory's
\* entries in byte-wise name order, whatever order read_dir enumerates: at
\* every moment the names emitted are a prefix of the sorted names.
C2_SortedEntries ==
  \A i \in 1..Len(elog) :
    IsPrefix(EmittedNames(elog[i].dir), SortedSeq(PassingNames(elog[i].dir)))

\* C3: whatever dump_path has written for the root path starts with the
\* length-prefixed magic "nix-archive-1".
C3_MagicFirst == out # <<>> => IsPrefix(write_str(NAR_MAGIC), out)

(***************************************************************************)
(* Properties of the local store, stated over Spec.                        *)
(***************************************************************************)
\* the callers of add-nar pass a well-formed archive and the info that
\* describes it
Matching ==
  /\ source = "file"
  /\ info.nar_hash = hash_bytes(Concat(Chunks(source)), "sha256")
  /\ info.nar_size = Some(Len(Concat(Chunks(source))))

\* the places of add-nar and add-path from the removal of what lies at the
\* real path to the registration of the path
WritePcs ==
  {"an_remove", "an_restore", "an_verify", "an_canon", "an_insert",
   "ap_remove", "ap_copy", "ap_canon", "ap_dump", "ap_insert"}

\* the temp-roots file of p names the destination of its operation
Rooted(p) ==
  /\ hist[p].rooted
  /\ trFile[p].exists
  /\ \E i \in 1..Len(trFile[p].content) : trFile[p].content[i] = print_store_path(local[p].dest)

\* every process has made one call, of operation o, and some call started
\* while another was running
AllCalledConcurrently(o) ==
  /\ \A p \in Procs : op[p] = o /\ pc[p] = "done" /\ hist[p].prevOp = "none"
  /\ \E p \in Procs : hist[p].overlap

\* C4: once the stream is restored, add-nar fails with NarHashMismatch exactly
\* when the digest of the streamed bytes differs from info.nar_hash, and with
\* NarSizeMismatch exactly when the digests agree, info carries a nar_size and
\* the byte count differs from it; an info without nar_size is never
\* rejected for its size.
C4_MismatchErrors ==
  \A p \in Procs :
    (op[p] = "add_nar" /\ hist[p].verified) =>
      /\ result[p] = "NarHashMismatch" <=> local[p].hash # info.nar_hash
      /\ result[p] = "NarSizeMismatch" <=>
           (local[p].hash = info.nar_hash /\ info.nar_size.some
              /\ local[p].len # info.nar_size.val)

\* C5: after add-nar failed with a hash or size mismatch there is no row for
\* the path in ValidPaths and nothing lies at the real path.
C5_MismatchLeavesNothing ==
  \A p \in Procs :
    (op[p] = "add_nar" /\ result[p] \in {"NarHashMismatch", "NarSizeMismatch"}) =>
      /\ ~is_valid_path(catalog, local[p].dest)
      /\ realfs[local[p].dest] = NoTree

\* C6: a second add-nar in the same process, after a first that succeeded
\* with the same info and stream, succeeds too and changes neither the
\* catalog nor the files at the real paths.
C6_Idempotent ==
  \A p \in Procs :
    (op[p] = "add_nar" /\ pc[p] = "done"
       /\ hist[p].prevOp = "add_nar" /\ hist[p].prevResult = "Ok") =>
      /\ result[p] = "Ok"
      /\ catalog = hist[p].beforeRows
      /\ realfs = hist[p].beforeFs

\* C7: when all processes run add-nar for the same path concurrently with a
\* matching stream, every one of them returns success and the path has
\* exactly one row.
C7_ConcurrentAddNar ==
  (Matching /\ AllCalledConcurrently("add_nar")) =>
    /\ \A p \in Procs : result[p] = "Ok"
    /\ Cardinality({r \in catalog : r.path = info.store_path}) = 1

\* C8: a process that is removing, creating, writing or registering files at
\* a real path holds the exclusive path-lock of that path, and no two
\* processes are doing so for the same path at the same time.
C8_WritesUnderPathLock ==
  /\ \A p \in Procs : pc[p] \in WritePcs => p \in lockFile[local[p].dest].holder
  /\ \A p, q \in Procs :
       (p # q /\ pc[p] \in WritePcs /\ pc[q] \in WritePcs) => local[p].dest # local[q].dest

\* C9: in add-nar and add-path, whenever the operation is at, or has passed,
\* a step that removes, creates, writes or registers files at the real path,
\* add_temp_root has returned Ok and the temp-roots file of the process names
\* the path; an operation whose add_temp_root failed has touched nothing.
C9_TempRootFirst ==
  \A p \in Procs :
    op[p] \in {"add_nar", "add_path"} =>
      /\ (pc[p] \in WritePcs \/ hist[p].touched) => Rooted(p)
      /\ result[p] = "GcLock" => (~hist[p].touched /\ pc[p] \notin WritePcs)

\* C9 witness: one process is past the removal at the real path with its
\* temp root registered, and the add_temp_root of another has failed
C9_Witness ==
  \E p, q \in Procs :
    /\ op[p] \in {"add_nar", "add_path"} /\ hist[p].touched /\ Rooted(p)
    /\ op[q] \in {"add_nar", "add_path"} /\ result[q] = "GcLock" /\ ~hist[q].touched

\* C10: after concurrent add_temp_root calls, one per process, every call
\* has returned Ok and the temp-roots file of every process exists and holds
\* the path string exactly once.
C10_ConcurrentTempRoots ==
  AllCalledConcurrently("add_temp_root") =>
    \A p \in Procs :
      /\ result[p] = "Ok"
      /\ trFile[p].exists
      /\ trFile[p].content = <<print_store_path(info.store_path)>>

\* C11: once add_temp_root has returned Ok in a process, the temp-roots file
\* of the process exists, names the path and is held under a shared lock by
\* the process.
C11_TempRootHeld ==
  \A p \in Procs :
    hist[p].rooted =>
      /\ trFile[p].exists
      /\ \E i \in 1..Len(trFile[p].content) :
           trFile[p].content[i] = print_store_path(local[p].dest)
      /\ trFile[p].lock = "read"

C13_NoDoubleLock ==
  \A p \in Procs :
    /\ \A i, j \in 1..Len(plHeld[p]) : plHeld[p][i] = plHeld[p][j] => i = j
    /\ plPc[p] = "parked" =>
         \A i \in 1..Len(plHeld[p]) :
           plHeld[p][i] # lock_path(plArgs[p].paths[plIdx[p]])

\* C14: the file a lock call has opened and locked for a path P is P with
\* ".lock" appended, whether or not the last component of P has a dot.
C14_LockFileName ==
  \A p \in Procs :
    plPc[p] = "meta" =>
      LET P == plArgs[p].paths[plIdx[p]]
      IN /\ (P \o DotLock) \in LockFiles
         /\ lfiles[P \o DotLock].holder = {p}

\* C15: a lock call that awaits a contended lock file goes on once the
\* holder has released the file: from a state where it waits and nobody
\* holds the file, it leaves the wait.
C15_AwaitCompletes ==
  \A p \in Procs :
    (plPc[p] = "parked" /\ lfiles[lock_path(plArgs[p].paths[plIdx[p]])].holder = {})
      ~> (plPc[p] # "parked")


\* C16: insert_valid_paths over a collection of infos is atomic: when the
\* insertion of one of them fails, the catalog is what it was before the call
\* and no row of the call is visible; otherwise every info of the call has
\* its row.
C16_InsertAtomic ==
  dbq.op = "insert_valid_paths" =>
    IF dbq.ok
      THEN \A k \in 1..Len(dbq.infos) : is_valid_path(catalog, dbq.infos[k].store_path)
      ELSE catalog = dbq.before

\* a call of two infos failed at the second one, after the row of the first
\* one had been written inside the transaction, and left no row
C16_Witness ==
  /\ dbq.op = "insert_valid_paths"
  /\ ~dbq.ok
  /\ Len(dbq.infos) = 2
  /\ RegisterRow(dbq.before, dbq.infos[1]).err = ""
  /\ PathTaken(dbq.before, print_store_path(dbq.infos[2].store_path))
  /\ ~is_valid_path(catalog, dbq.infos[1].store_path)

\* C17: an info registered with all its references present is returned by
\* get_path_info equal to itself (path, hash and references), and
\* get_referrers of each path it refers to contains its path.
C17_RefsRoundTrip ==
  /\ dbq.op = "get_path_info" =>
       \A v \in registered :
         v.store_path = dbq.path => dbq.info.some /\ SameInfo(dbq.info.val, v)
  /\ dbq.op = "get_referrers" =>
       \A v \in registered :
         dbq.path \in v.references => v.store_path \in dbq.paths


\* C18: for every hash h of every algorithm and every encoding E of base16,
\* base32, base64 and SRI, decode(encode_with_type(h, E)) returns a hash
\* equal to h.
C18_HashRoundTrip ==
  cop = "hash_decode" => cres.err = "" /\ cres.val.ty = cin.ty /\ as_bytes(cres.val) = as_bytes(cin)

\* the number a text stands for: its last character is the least significant
RECURSIVE TextValue(_)
TextValue(t) ==
  IF t = <<>> THEN 0 ELSE TextValue(Front(t)) * 32 + BASE32_CHARS_REVERSE(Last(t))

InAlphabet(t) == \A i \in 1..Len(t) : BASE32_CHARS_REVERSE(t[i]) # NoChar

\* the bits of a text above the bytes it decodes to
LeftoverBits(t) == TextValue(t) \div Pow2(8 * ((Len(t) * 5) \div 8))

\* C19: for every byte string b, the empty one included, base32
\* decode(encode(b)) = b; decode fails with InvalidBase32 on a text with a
\* character outside the alphabet and on a text whose leftover high bits are
\* not zero.
C19_Base32RoundTrip ==
  /\ cop = "encode" => cres.err = ""
  /\ cop = "decode" => cres.err = "" /\ cres.val = as_bytes(cin)
  /\ cop = "decode_text" =>
       /\ ~InAlphabet(ctext) => cres.err = "InvalidBase32"
       /\ (InAlphabet(ctext) /\ LeftoverBits(ctext) # 0) => cres.err = "InvalidBase32"

\* three bytes with the highest bit set went through encode and decode
C19_Witness ==
  /\ cop = "decode"
  /\ cin.data = <<255, 128, 255>>
  /\ Len(ctext) = 5
  /\ cres.val = <<255, 128, 255>>

CeilDiv(a, b) == (a + b - 1) \div b

HashSizes == {16, 20, 32, 64}

\* C20, as the code has it: the base-32 encoding of an n-byte input, n one of
\* 16, 20, 32 and 64, has (8n - 1) div 5 + 1 characters (the quotient rounded
\* down), and its last character encodes the low 5 bits of byte 0.
C20_Base32Length ==
  (cop = "encode" /\ Len(as_bytes(cin)) \in HashSizes) =>
    /\ Len(ctext) = (8 * Len(as_bytes(cin)) - 1) \div 5 + 1
    /\ Last(ctext) = BASE32_CHARS[(as_bytes(cin)[1] % 32) + 1]

\* C20, as stated: the length is the quotient (8n - 1) / 5 rounded up, plus 1
C20_Base32LengthCeiling ==
  (cop = "encode" /\ Len(as_bytes(cin)) \in HashSizes) =>
    /\ Len(ctext) = CeilDiv(8 * Len(as_bytes(cin)) - 1, 5) + 1
    /\ Last(ctext) = BASE32_CHARS[(as_bytes(cin)[1] % 32) + 1]

\* twenty bytes whose byte 0 is 31 are encoded in 32 characters ending in z
C20_Witness ==
  /\ cop = "encode"
  /\ Len(as_bytes(cin)) = 20
  /\ as_bytes(cin)[1] = 31
  /\ Len(ctext) = 32
  /\ Last(ctext) = 122


\* the XOR of the bytes of h whose index, counted from 0, is i modulo k: its
\* bit b is set when an odd number of them have the bit set
XorFold(h, k, i) ==
  LET odd(b) == Cardinality({j \in 1..Len(h.data) :
                               (j - 1) % k = i /\ Bit(h.data[j], b) = 1}) % 2
  IN odd(0) + 2 * odd(1) + 4 * odd(2) + 8 * odd(3)
       + 16 * odd(4) + 32 * odd(5) + 64 * odd(6) + 128 * odd(7)

\* what truncate is to return for a size k below the length of the hash
Folded(k) ==
  /\ cres.err = ""
  /\ cres.val.ty = cin.ty
  /\ Len(cres.val.data) = k
  /\ \A i \in 0..(k - 1) : cres.val.data[i + 1] = XorFold(cin, k, i)

DirectChild(s, d) == s # <<>> /\ Front(s) = d

\* C22: parsing D/to_string(p) yields p; the text of a parsed path is the
\* leaf it was parsed from; a file path that is not a direct child of D is
\* rejected with NotInStore, and a leaf shorter than 33 characters or
\* without '-' at index 32 with InvalidFilepath.
C22_ParseRoundTrip ==
  /\ pop = "parsed" => pres = [err |-> "", val |-> pargs.path]
  /\ (pop = "new" /\ pres.err = "") => ptext = [err |-> "", val |-> Last(pargs.fs)]
  /\ (pop = "new" /\ ~DirectChild(pargs.fs, pargs.dir)) => pres.err = "NotInStore"
  /\ (pop = "new" /\ DirectChild(pargs.fs, pargs.dir)
        /\ (Len(Last(pargs.fs)) < 33 \/ Last(pargs.fs)[33] # Dash))
       => pres.err = "InvalidFilepath"

\* C22 witness: the path nix-2.4 of the tests has been printed under the
\* store directory and parsed back
C22_Witness ==
  /\ pop = "parsed"
  /\ pargs.path.hash[1] = 6
  /\ Len(ptext.val) = 40
  /\ pres = [err |-> "", val |-> pargs.path]

\* a has a smaller byte than b at the last index where they differ
RevLess(a, b) ==
  \E i \in 1..Len(a) : a[i] < b[i] /\ \A j \in (i + 1)..Len(a) : a[j] = b[j]

\* a has a smaller character than b at the first index where they differ
TextLess(s, t) ==
  \E i \in 1..Len(s) : s[i] < t[i] /\ \A j \in 1..(i - 1) : s[j] = t[j]

\* C23: a orders before b exactly when the hash of a precedes the hash of b
\* in the comparison of the bytes from the last to the first, which is the
\* order of the 32-character texts of the hashes; the names decide only
\* when the hashes are equal.
C23_Order ==
  pop = "cmp" =>
    /\ pargs.a.hash # pargs.b.hash =>
         ((pres.val = "Less") <=> RevLess(pargs.a.hash, pargs.b.hash))
    /\ RevLess(pargs.a.hash, pargs.b.hash)
         <=> TextLess(SubSeq(ptext.val[1], 1, HASH_CHARS), SubSeq(ptext.val[2], 1, HASH_CHARS))
    /\ pargs.a.hash = pargs.b.hash => pres.val = IterCmp(pargs.a.name, pargs.b.name)

\* C23 witness: the first byte of a is larger, the last byte smaller, and a
\* orders before b
C23_Witness ==
  /\ pop = "cmp"
  /\ pargs.a.hash[1] > pargs.b.hash[1]
  /\ pargs.a.hash[HASH_BYTES] < pargs.b.hash[HASH_BYTES]
  /\ pres.val = "Less"


\* the inner hash of the claim: SHA-256 of "fixed:out:" + base16(H) + ":"
PlainInner(h) == hash_str(FixedOut \o encode(h, "Base16").val \o <<Colon>>, "sha256")

\* the inner hash with the mark of a recursive hash
MarkedInner(recursive, h) ==
  hash_str(FixedOut \o (IF recursive THEN RecursiveMark ELSE <<>>)
             \o encode(h, "Base16").val \o <<Colon>>, "sha256")

\* the purpose is that of the "source" scheme
SourceScheme ==
  /\ pcall.err = ""
  /\ SubSeq(pcall.path_type, 1, Len(SourceType)) = SourceType
  /\ pcall.path_type =
       make_type(pargs.dir, SourceType, pargs.references, pargs.has_self_reference)
  /\ pcall.hash = pargs.hash

\* C24: make_fixed_output_path uses the "source" scheme exactly when
\* recursive is true and the hash is SHA-256; in every other case it asserts
\* that there are no references and derives the path with the purpose
\* "output:out" over the inner hash, SHA-256 of "fixed:out:", "r:" if
\* recursive is true, the base-16 text of the hash and ":".
C24_FixedOutputScheme ==
  pop = "fixed" =>
    /\ SourceScheme <=> (pargs.recursive /\ pargs.hash.ty = "sha256")
    /\ ~(pargs.recursive /\ pargs.hash.ty = "sha256") =>
         /\ pargs.references # <<>> => pres.err = "Panic"
         /\ pargs.references = <<>> =>
              /\ pcall.path_type = OutputOut
              /\ pcall.hash = MarkedInner(pargs.recursive, pargs.hash)
    /\ pcall.err = "" =>
         pres = make_store_path(pargs.dir, pcall.path_type, pcall.hash, pargs.name)

\* C24 as stated: in every other case the inner hash is SHA-256 of
\* "fixed:out:", the base-16 text of the hash and ":".
C24_FixedOutputSchemeNoMark ==
  (pop = "fixed" /\ ~(pargs.recursive /\ pargs.hash.ty = "sha256")
     /\ pargs.references = <<>>)
    => (pcall.path_type = OutputOut /\ pcall.hash = PlainInner(pargs.hash))

\* C24 witness: a recursive SHA-1 hash without references has been given the
\* purpose "output:out" and a path
C24_Witness ==
  /\ pop = "fixed"
  /\ pargs.recursive
  /\ pargs.hash.ty = "sha1"
  /\ pargs.references = <<>>
  /\ pcall.path_type = OutputOut
  /\ pcall.hash = MarkedInner(TRUE, pargs.hash)
  /\ pres.err = ""


(***************************************************************************)
(* Further properties of the archive codec, stated over SpecArchive.       *)
(***************************************************************************)
\* the node of a symbolic link with the target t
SymlinkNode(t) ==
  write_str(TagOpen) \o write_str(TagType) \o write_str(TagSymlink)
    \o write_str(TagTarget) \o write_str(t) \o write_str(TagClose)

\* C25: when the root path is a symbolic link, dump_path ends with Ok and
\* has written a node of type "symlink" whose target is the stored target
\* of the link, not what the link points to.
C25_SymlinkNode ==
  (dstatus \in {"done", "error"} /\ world[root].type = "symlink")
    => (dstatus = "done" /\ out = SymlinkNode(world[root].target))


(***************************************************************************)
(* Properties of the parser, stated over SpecParse.                        *)
(***************************************************************************)
\* what restore_into does with the archive before the bit is flipped
Unflipped == restore_into(NoTree, Ser(nin.tokens))

BeginsWithMagic(s) == IsPrefix(write_str(NAR_MAGIC), s)

\* the stream begins with a string of at most 13 bytes and zero padding
BeginsWithShortString(s) ==
  /\ Len(s) >= 8
  /\ \A i \in 2..8 : s[i] = 0
  /\ s[1] <= Len(NAR_MAGIC)
  /\ Len(s) >= Len(write_str(Zeros(s[1])))
  /\ \A i \in (8 + s[1] + 1)..Len(write_str(Zeros(s[1]))) : s[i] = 0

\* C27: parse_dump on a stream that does not begin with the magic fails and
\* makes no sink call; the failure is InvalidNar when the stream begins with
\* a string of at most 13 bytes, and StringTooLong, NonzeroPadding or the
\* end of the stream otherwise.
C27_NoMagic ==
  (nin.kind # "none" /\ ~BeginsWithMagic(nsrc)) =>
    /\ nres.calls = <<>>
    /\ nres.err \in {"InvalidNar", "StringTooLong", "NonzeroPadding", "Eof"}
    /\ nres.err = "InvalidNar" <=> BeginsWithShortString(nsrc)

\* C27 as stated: the failure is InvalidNar for every such stream.
C27_NoMagicInvalidNar ==
  (nin.kind # "none" /\ ~BeginsWithMagic(nsrc)) =>
    (nres.err = "InvalidNar" /\ nres.calls = <<>>)

\* C27 witness: a stream with the tag nix-archive-2 and the node of a file
\* has been refused with InvalidNar, and the sink has not been called
C27_Witness ==
  /\ nin.kind = "tokens"
  /\ nin.tokens[1] # NAR_MAGIC
  /\ Len(nin.tokens[1]) = Len(NAR_MAGIC)
  /\ nres.err = "InvalidNar"
  /\ nres.calls = <<>>

\* C28: a second "type" field in a node fails with MultipleTypeFields, and
\* an archive with a node closed without a "type" field is not accepted.
C28_OneTypeField ==
  nin.kind = "tokens" =>
    /\ nin.tokens \in TwoTypes => nres.err = "MultipleTypeFields"
    /\ nin.tokens \in Untyped => nres.err # ""

\* C29: every path the parser passes to create_directory, create_file or
\* create_symlink is the root or a sequence of names that are not empty,
\* not "." or ".." and hold no "/" and no NUL; an entry with a name that
\* violates this fails with InvalidFilename, and the sink is called for no
\* node of that entry: the calls made are those that create the directories
\* around it and the entries before it.
C29_ValidNames ==
  /\ \A i \in 1..Len(nres.calls) :
       /\ \A j \in 1..Len(nres.calls[i].path) :
            LET n == nres.calls[i].path[j]
            IN n # <<>> /\ n # <<46>> /\ n # <<46, 46>>
                 /\ \A k \in 1..Len(n) : n[k] # 47 /\ n[k] # 0
  /\ (nin.kind = "tokens" /\ nin.tokens \in BadlyNamed) =>
       /\ nres.err = "InvalidFilename"
       /\ \A i \in 1..Len(nres.calls) :
            nres.calls[i].call \in {"create_file", "create_directory", "create_symlink"}
              => nres.calls[i].path \in {<<>>, <<NameA>>}

\* C29 witness: the entry ".." of a directory one level down has been
\* refused after the two directories around it were created
C29_Witness ==
  /\ nin.kind = "tokens"
  /\ \E i \in 1..Len(nin.tokens) : nin.tokens[i] = <<46, 46>>
  /\ nres.err = "InvalidFilename"
  /\ nres.calls = <<[call |-> "create_directory", path |-> <<>>],
                    [call |-> "create_directory", path |-> <<NameA>>]>>


\* C30: dump_path emits each entry of a directory that passes the filter
\* once, and when it has returned, the entry records of a directory are as
\* many as its entries that pass the filter.  Stated over SpecArchive.
C30_EachEntryOnce ==
  /\ \A i, j \in 1..Len(elog) : i # j => elog[i] # elog[j]
  /\ dstatus = "done" =>
       \A d \in DirsOf(world) :
         IsPrefix(root, d) => Len(EmittedNames(d)) = Cardinality(PassingNames(d))


(***************************************************************************)
(* Further properties of the local store, stated over Spec.                *)
(***************************************************************************)
\* C31: no process ever holds the GC lock exclusively, so every acquisition
\* in shared mode succeeds, also when gc.lock exists from an earlier
\* acquisition: no operation returns the error of open_gc_lock.
C31_SharedGcLock == \A p \in Procs : result[p] # "GcLock"


\* the nar_hash of the ValidPathInfo the operation of p hands to
\* insert_valid_paths
InsertedNarHash(p) == IF op[p] = "add_path" THEN local[p].hash ELSE info.nar_hash

\* the operation of p has registered its path
Registered(p) ==
  /\ op[p] \in {"add_path", "add_nar"}
  /\ pc[p] = "done"
  /\ result[p] = "Ok"
  /\ ~is_valid_path(hist[p].beforeRows, local[p].dest)
  /\ is_valid_path(catalog, local[p].dest)

\* C35: every ValidPathInfo that add-path, for any requested algorithm, and
\* add-nar insert into the catalog has a SHA-256 nar_hash and, for add-path,
\* ultimate = true.
C35_NarHashSha256 ==
  \A p \in Procs :
    Registered(p) =>
      /\ InsertedNarHash(p).ty = "sha256"
      /\ op[p] = "add_path" => RowOf(catalog, local[p].dest).ultimate

(***************************************************************************)
(* Further properties of PathLocks, stated over SpecLocks.                 *)
(***************************************************************************)
\* C32: PathLocks::lock keeps a lock only on a file whose size is zero at
\* the re-check, and a lock file that a holder left with the marker is seen
\* as stale by the next locker: no process keeps the lock of a file whose
\* marker no locker has seen.
C32_StaleRecognised ==
  \A p \in Procs : \A i \in 1..Len(plHeld[p]) :
    /\ lfiles[plHeld[p][i]].size = 0
    /\ ~lfiles[plHeld[p][i]].stale


(***************************************************************************)
(* Properties of try_lock and the lock future, stated over SpecFlock.      *)
(***************************************************************************)
\* C33: try_lock returns true, and the awaited lock completes with success,
\* only when the flock call granted the request; after a call that was not
\* granted the caller is not told that it holds the lock.
C33_ToldOnlyWhenGranted ==
  fcall.ret \in {"true", "Ok"} => fcall.granted /\ fmine = Mode(fcall.ty)


(***************************************************************************)
(* Properties of add-nar over leftovers, stated over SpecRetry.            *)
(***************************************************************************)
\* the stream of the call is the archive the info describes
MatchingStream ==
  /\ source = "file"
  /\ info.nar_hash = hash_bytes(Concat(Chunks(source)), "sha256")
  /\ unwrap_or_default(info.nar_size) = Len(Concat(Chunks(source)))

C36_SinkHashesWire ==
  hres.op = "finish" => hres.val = hash_bytes(WireAll(hsent), "sha256")

\* C37: Hash::hash gives hash_bytes of the content of the stream, however
\* the content is split into reads.
C37_HashOfStream ==
  hres.op = "hash" => hres.val = hash_bytes(Concat(hreads), "sha256")


(***************************************************************************)
(* Properties of the caching store wrapper, stated over SpecCached.        *)
(***************************************************************************)
\* C38: once a path is registered in the wrapped store, get_path_info and
\* is_valid_path through the wrapper, when they return, report it as
\* present, also when an earlier lookup through the wrapper returned None
\* for it.
C38_WrapperAgrees ==
  (/\ klast.op \in {"get_path_info", "is_valid_path"}
   /\ klast.path \in kstore
   /\ klast.ret # "Panic")
  => klast.ret \in {"some", "true"}


(***************************************************************************)
(* Properties of canonicalization, stated over SpecCanon.                  *)
(***************************************************************************)
UserExec(st) == (st.st_mode \div S_IXUSR) % 2 = 1

\* C39: after canonicalise_path_metadata has returned successfully, every
\* regular file and directory of the tree has the permissions 0444, or 0555
\* when its user-execute bit was set before, every file has the type it had
\* and the modification time 1; a second call returns successfully and
\* changes nothing.
C39_Canonical ==
  (qres.calls >= 1 /\ qres.err = "") =>
    /\ \A p \in DOMAIN qtree :
         /\ ~s_islnk(qtree[p].st_mode) =>
              PermBits(qtree[p].st_mode) = IF UserExec(qbefore[p]) THEN 365 ELSE 292
         /\ TypeBits(qtree[p].st_mode) = TypeBits(qbefore[p].st_mode)
         /\ qtree[p].st_mtime = 1
    /\ qres.calls >= 2 => qtree = qfirst

\* a directory with a file whose only execute bit is not the user's and a
\* symlink with another modification time was canonicalised twice
C39_Witness ==
  /\ qres = [calls |-> 2, err |-> ""]
  /\ <<"b">> \in DOMAIN qtree
  /\ s_islnk(qbefore[<<"b">>].st_mode) /\ qbefore[<<"b">>].st_mtime = 5
  /\ PermBits(qbefore[<<"a">>].st_mode) = 301
  /\ PermBits(qbefore[<<>>].st_mode) = 493
  /\ qtree # qbefore


(***************************************************************************)
(* Further properties of the parser, stated over SpecParse.                *)
(***************************************************************************)
ContentCalls == {"set_executable", "allocate_contents", "receive_contents"}

\* call i of the sink follows a create_file with no other node created in
\* between
AfterCreateFile(cs, i) ==
  \E j \in 1..(i - 1) :
    /\ cs[j].call = "create_file"
    /\ \A k \in (j + 1)..(i - 1) : cs[k].call \in ContentCalls

\* C40: the parser calls set_executable, allocate_contents and
\* receive_contents only after the create_file of a regular node and before
\* another node is created, the sink never fails with its invalid-state
\* error, and a field that does not fit the variant of its node ends the
\* parse with UnknownField.
C40_ContentsInsideFile ==
  /\ nres.err # "InvalidState"
  /\ \A i \in 1..Len(nres.calls) :
       nres.calls[i].call \in ContentCalls => AfterCreateFile(nres.calls, i)
  /\ (nin.kind = "tokens" /\ nin.tokens \in Misfits) => nres.err = "UnknownField"

\* a directory whose file was restored and which then has a contents field
\* of its own: the parse failed after the calls for the file
C40_Witness ==
  /\ nin.kind = "tokens"
  /\ nin.tokens = <<NAR_MAGIC>> \o DirNode(EntryRecord(NameA, RegularNode) \o <<TagContents, Hi>>)
  /\ nres.err = "UnknownField"
  /\ Len(nres.calls) = 4
  /\ nres.calls[4].call = "receive_contents"

=============================================================================
